---- MODULE Spec2Model ----
(***************************************************************************)
(* The notebooks of vhbprodok_datascience as state machines.               *)
(*                                                                         *)
(* A notebook is executed top to bottom, one code cell per step (a for     *)
(* loop takes one step per iteration).  The state of an execution is the   *)
(* kernel's namespace (ns), the dict objects it allocated (heap), the log  *)
(* of estimator fits (fits), what it printed (out), its accesses to        *)
(* storage and network (io), the files it sees (disk) and whether a cell   *)
(* raised (status).  run[r] is the state of execution r: a specification   *)
(* either follows one execution or follows two executions in lockstep that *)
(* share the training rows and differ in the test rows.                    *)
(*                                                                         *)
(* Library calls whose numeric result is not the subject of a claim        *)
(* (fit, predict, r2_score, mean_squared_error, cross-validation) are      *)
(* modelled by the record of the call: the estimator, its parameters and   *)
(* the data it was given.  Two such records are equal exactly when the     *)
(* calls had the same arguments.                                           *)
(***************************************************************************)
EXTENDS Integers, Sequences, FiniteSets, TLC

VARIABLES nb, pc, it, run

vars == <<nb, pc, it, run>>

----------------------------------------------------------------------------
(* Bounds of the model: the size and the values of the CSV files read.     *)

NRows == 3
MaxCat == 2
MaxNum == 1
MaxPrice == 2

----------------------------------------------------------------------------
(* Generic helpers.                                                        *)

Range(s) == {s[i] : i \in DOMAIN s}

Bind(ns, name, v) == [n \in DOMAIN ns \cup {name} |-> IF n = name THEN v ELSE ns[n]]

Bound(rs, name) == name \in DOMAIN rs.ns

IndexOf(s, x) == CHOOSE i \in DOMAIN s : s[i] = x

SelectIdx(s, idx) == [k \in 1..Len(idx) |-> s[idx[k]]]

RECURSIVE SumSeq(_)
SumSeq(s) == IF s = <<>> THEN 0 ELSE Head(s) + SumSeq(Tail(s))

RECURSIVE SortedSeq(_)
SortedSeq(S) ==
    IF S = {} THEN <<>>
    ELSE LET m == CHOOSE x \in S : \A y \in S : x <= y
         IN <<m>> \o SortedSeq(S \ {m})

RECURSIVE Flatten(_)
Flatten(ss) == IF ss = <<>> THEN <<>> ELSE Head(ss) \o Flatten(Tail(ss))

----------------------------------------------------------------------------
(* pandas: a DataFrame is its column names, their dtypes and its rows; a   *)
(* Series is the sequence of its values.  A categorical value (a string of *)
(* an object column) is written as its code, the rank of the string.       *)

Column(df, c) == [i \in 1..Len(df.rows) |-> df.rows[i][IndexOf(df.cols, c)]]

Columns(df, cs) ==
    [cols |-> cs,
     dtypes |-> [k \in 1..Len(cs) |-> df.dtypes[IndexOf(df.cols, cs[k])]],
     rows |-> [i \in 1..Len(df.rows) |->
                 [k \in 1..Len(cs) |-> df.rows[i][IndexOf(df.cols, cs[k])]]]]

HasColumns(df, cs) == Range(cs) \subseteq Range(df.cols)

drop(df, cs) ==
    Columns(df, SelectSeq(df.cols, LAMBDA c : c \notin Range(cs)))

Rows(df, idx) ==
    [cols |-> df.cols, dtypes |-> df.dtypes, rows |-> SelectIdx(df.rows, idx)]

select_dtypes_include_object(df) ==
    SelectSeq(df.cols, LAMBDA c : df.dtypes[IndexOf(df.cols, c)] = "object")

select_dtypes_exclude_object(df) ==
    SelectSeq(df.cols, LAMBDA c : df.dtypes[IndexOf(df.cols, c)] # "object")

DataFrame(matrix, cs) ==
    [cols |-> cs, dtypes |-> [k \in 1..Len(cs) |-> "float64"], rows |-> matrix]

concat_axis1(a, b) ==
    [cols |-> a.cols \o b.cols,
     dtypes |-> a.dtypes \o b.dtypes,
     rows |-> [i \in 1..Len(a.rows) |-> a.rows[i] \o b.rows[i]]]

----------------------------------------------------------------------------
(* sklearn.model_selection.train_test_split(X, y, test_size=0.2,           *)
(* random_state=42): the rows are permuted by a generator seeded with 42,  *)
(* the first ceil(0.2 n) of the permutation are the test rows, the rest    *)
(* the training rows.  The permutation is a fixed function of n alone; the *)
(* model takes the reversal.                                               *)

test_size_pct == 20

permutation(n) == [k \in 1..n |-> n + 1 - k]

n_test(n) == (test_size_pct * n + 99) \div 100

train_test_split(X, y) ==
    LET n == Len(X.rows)
        p == permutation(n)
        test == SubSeq(p, 1, n_test(n))
        train == SubSeq(p, n_test(n) + 1, n)
    IN [X_train |-> Rows(X, train), X_test |-> Rows(X, test),
        y_train |-> SelectIdx(y, train), y_test |-> SelectIdx(y, test)]

----------------------------------------------------------------------------
(* sklearn.preprocessing.                                                  *)

(* OneHotEncoder(handle_unknown='ignore', sparse_output=False).fit(df):    *)
(* the sorted distinct values of every column.                             *)
OneHotEncoder_fit(df) ==
    [feature_names_in_ |-> df.cols,
     categories_ |-> [k \in 1..Len(df.cols) |-> SortedSeq(Range(Column(df, df.cols[k])))]]

(* enc.transform(df): one 0/1 column per learned category; a value that    *)
(* was not seen by fit gives zeros in all columns of its feature.          *)
OneHotEncoder_transform(enc, df) ==
    [i \in 1..Len(df.rows) |->
        Flatten([k \in 1..Len(enc.categories_) |->
            [j \in 1..Len(enc.categories_[k]) |->
                IF df.rows[i][k] = enc.categories_[k][j] THEN 1 ELSE 0]])]

OneHotEncoder_get_feature_names_out(enc, input_features) ==
    Flatten([k \in 1..Len(enc.categories_) |->
        [j \in 1..Len(enc.categories_[k]) |->
            input_features[k] \o "_" \o ToString(enc.categories_[k][j])]])

(* StandardScaler().fit(df): per column the mean sum/n and the variance    *)
(* (n*sumsq - sum^2)/n^2, kept exactly as n, sum and n*sumsq - sum^2.      *)
StandardScaler_fit(df) ==
    [k \in 1..Len(df.cols) |->
        LET xs == Column(df, df.cols[k])
            n == Len(xs)
            s == SumSeq(xs)
            sq == SumSeq([i \in 1..n |-> xs[i] * xs[i]])
        IN [n |-> n, sum |-> s, nvar |-> n * sq - s * s]]

(* scaler.transform(df): (x - mean)/scale = (n*x - sum)/sqrt(n*sumsq -     *)
(* sum^2), the value written as its numerator and its squared denominator; *)
(* a column of variance 0 has scale 1.                                     *)
StandardScaler_transform(scaler, df) ==
    [i \in 1..Len(df.rows) |->
        [k \in 1..Len(scaler) |->
            [num |-> scaler[k].n * df.rows[i][k] - scaler[k].sum,
             den2 |-> IF scaler[k].nvar = 0 THEN scaler[k].n * scaler[k].n
                      ELSE scaler[k].nvar]]]

(* PolynomialFeatures(interaction_only=True): degree 2 with bias; the      *)
(* layout learned by fit is the number of input features, the output is    *)
(* the bias column, the features, and the products of every pair i < j.    *)
Pairs(n) ==
    Flatten([i \in 1..n |-> [d \in 1..(n - i) |-> <<i, i + d>>]])

PolynomialFeatures_fit(df) ==
    [n_features_in_ |-> Len(df.cols), feature_names_in_ |-> df.cols]

PolynomialFeatures_transform(interact, df) ==
    [i \in 1..Len(df.rows) |->
        <<1>> \o [k \in 1..interact.n_features_in_ |-> df.rows[i][k]]
             \o [q \in 1..Len(Pairs(interact.n_features_in_)) |->
                    [mul |-> <<df.rows[i][Pairs(interact.n_features_in_)[q][1]],
                               df.rows[i][Pairs(interact.n_features_in_)[q][2]]>>]]]

PolynomialFeatures_get_feature_names_out(interact) ==
    <<"1">> \o interact.feature_names_in_
           \o [q \in 1..Len(Pairs(interact.n_features_in_)) |->
                  interact.feature_names_in_[Pairs(interact.n_features_in_)[q][1]]
                  \o " " \o
                  interact.feature_names_in_[Pairs(interact.n_features_in_)[q][2]]]

----------------------------------------------------------------------------
(* The state of one execution, and the statements cells are made of.       *)

NewRun(disk) ==
    [ns |-> <<>>, heap |-> <<>>, fits |-> <<>>, out |-> <<>>, io |-> <<>>,
     disk |-> disk, iter |-> <<>>, status |-> "running", error |-> "none",
     jobs |-> [tasks |-> <<>>, results |-> <<>>, reordered |-> {}]]

(* A statement executes only while no earlier statement of the cell has    *)
(* raised: an exception ends the cell.                                     *)
Assign(rs, name, v) ==
    IF rs.status # "running" THEN rs ELSE [rs EXCEPT !.ns = Bind(@, name, v)]

(* try: ... except: the exception is noted and the cell goes on.           *)
Raise_caught(rs, exc) ==
    IF rs.status # "running" THEN rs ELSE [rs EXCEPT !.error = exc]

Raise(rs, exc) ==
    IF rs.status # "running" THEN rs
    ELSE [rs EXCEPT !.status = "error", !.error = exc]

(* A cell that reads a name nothing has bound raises NameError.            *)
load_names(rs, names) ==
    IF names \subseteq DOMAIN rs.ns THEN rs ELSE Raise(rs, "NameError")

Access(rs, op, target) ==
    IF rs.status # "running" THEN rs
    ELSE [rs EXCEPT !.io = Append(@, [op |-> op, target |-> target])]

(* print(label) where the cell has print(label, v).                        *)
print_label_only(rs, label, v) ==
    IF rs.status # "running" THEN rs
    ELSE [rs EXCEPT !.out = Append(@, [label |-> label])]

print(rs, label, v) ==
    IF rs.status # "running" THEN rs
    ELSE [rs EXCEPT !.out = Append(@, [label |-> label, value |-> v])]

print_line(rs, label) ==
    IF rs.status # "running" THEN rs
    ELSE [rs EXCEPT !.out = Append(@, [label |-> label])]

round(v, ndigits) == [round |-> v, ndigits |-> ndigits]

(* pd.read_csv(path): the frame stored under path.                         *)
read_csv(rs, name, path) ==
    IF path \in DOMAIN rs.disk
    THEN Assign(Access(rs, "read", path), name, rs.disk[path])
    ELSE Raise(Access(rs, "read", path), "FileNotFoundError")

(* df.to_csv(path, index=False): the frame is stored under path.           *)
to_csv(rs, name, path) ==
    IF rs.status # "running" THEN rs
    ELSE [Access(rs, "write", path) EXCEPT !.disk = Bind(@, path, rs.ns[name])]

----------------------------------------------------------------------------
(* Estimators.  An estimator is its class, its parameters and the number   *)
(* of the fit (an index of the execution's log of fits) that produced its  *)
(* fitted attributes, 0 before any fit.                                    *)

Estimator(class, params) == [class |-> class, params |-> params, fitted |-> 0]

Rational(n, d) == [num |-> n, den |-> d]

(* est.fit(X, y): the fit is logged with the estimator's parameters and    *)
(* the data it was given; the fitted attributes are those of this fit.     *)
fit(rs, name, X, y) ==
    IF rs.status # "running" THEN rs
    ELSE LET est == rs.ns[name]
             rec == [class |-> est.class, params |-> est.params, X |-> X, y |-> y]
         IN [rs EXCEPT !.fits = Append(@, rec),
                       !.ns = Bind(@, name, [est EXCEPT !.fitted = Len(rs.fits) + 1])]

(* The keyword arguments the library functions accept.                     *)
PredictKeywords == {"X"}

MeanSquaredErrorKeywords ==
    {"y_true", "y_pred", "sample_weight", "multioutput", "squared"}

(* est.predict(X): the predictions of the fitted state for the rows of X.  *)
predict(rs, est, X) == [fit |-> est.fitted, X |-> X]

(* name = est.predict(X, **kw): a keyword predict does not accept raises   *)
(* TypeError and leaves name as it was.                                    *)
assign_predict(rs, name, est, X, kw) ==
    IF kw \subseteq PredictKeywords
    THEN Assign(rs, name, predict(rs, rs.ns[est], rs.ns[X]))
    ELSE Raise(rs, "TypeError")

r2_score(y_true, y_pred) ==
    [metric |-> "r2_score", y_true |-> y_true, y_pred |-> y_pred]

(* mean_squared_error(y_true, y_pred, squared): the mean squared error,    *)
(* or its root when squared is False; squared defaults to True.            *)
mean_squared_error(y_true, y_pred, squared) ==
    [metric |-> "mean_squared_error", root |-> ~squared,
     y_true |-> y_true, y_pred |-> y_pred]

coef_(rs, est) ==
    [i \in 1..Len(rs.fits[est.fitted].X.cols) |-> [fit |-> est.fitted, i |-> i]]

feature_names_in_(rs, est) == rs.fits[est.fitted].X.cols

(* The alpha_ of a fitted LassoCV: the value of its grid with the lowest   *)
(* mean cross-validated error on the data of the fit.                      *)
alpha_(rs, est) == [argmin_cv |-> rs.fits[est.fitted]]

(* np.linspace(0, stop, num): num values k*stop/(num-1), k = 0..num-1.     *)
linspace(stop, num) == [k \in 1..num |-> Rational((k - 1) * stop, num - 1)]

----------------------------------------------------------------------------
(* ames_housing/lasso.ipynb, cell by cell.                                 *)

AmesTrainUrl ==
    "https://raw.githubusercontent.com/olivermueller/vhbprodok_datascience/main/ames_housing/data/train.csv"

lasso_read_csv(rs) == read_csv(rs, "data", AmesTrainUrl)

lasso_dropped == <<"house_id", "YrSold", "MoSold", "SaleCondition", "SaleType">>

lasso_drop(rs) ==
    IF HasColumns(rs.ns["data"], lasso_dropped)
    THEN Assign(rs, "data", drop(rs.ns["data"], lasso_dropped))
    ELSE Raise(rs, "KeyError")

(* X = data.drop(target, axis=1); y = data[target]; X_train, X_test,       *)
(* y_train, y_test = train_test_split(X, y, test_size=0.2, random_state=42)*)
split_cell(rs, target) ==
    IF ~HasColumns(rs.ns["data"], <<target>>) THEN Raise(rs, "KeyError")
    ELSE LET s1 == Assign(rs, "X", drop(rs.ns["data"], <<target>>))
             s2 == Assign(s1, "y", Column(s1.ns["data"], target))
             sp == train_test_split(s2.ns["X"], s2.ns["y"])
         IN Assign(Assign(Assign(Assign(s2, "X_train", sp.X_train),
                "X_test", sp.X_test), "y_train", sp.y_train), "y_test", sp.y_test)

lasso_split(rs) == split_cell(rs, "SalePrice")

dtypes_cell(rs) ==
    Assign(Assign(rs, "categorical_features", select_dtypes_include_object(rs.ns["X_train"])),
           "numerical_features", select_dtypes_exclude_object(rs.ns["X_train"]))

(* The categorical columns of all rows of the data, those of the test set  *)
(* included.                                                               *)
enc_fit_input_all_rows(rs) ==
    Columns([rs.ns["X_train"] EXCEPT !.rows = @ \o rs.ns["X_test"].rows],
            rs.ns["categorical_features"])

(* The frame the encoder is fitted on.                                     *)
enc_fit_input(rs) == Columns(rs.ns["X_train"], rs.ns["categorical_features"])

enc_cell(rs) ==
    LET cf == rs.ns["categorical_features"]
        s1 == Assign(rs, "enc", OneHotEncoder_fit(enc_fit_input(rs)))
        enc == s1.ns["enc"]
        s2 == Assign(s1, "X_train_cat",
                     OneHotEncoder_transform(enc, Columns(s1.ns["X_train"], cf)))
        s3 == Assign(s2, "X_test_cat",
                     OneHotEncoder_transform(enc, Columns(s2.ns["X_test"], cf)))
        s4 == Assign(s3, "X_train_cat",
                     DataFrame(s3.ns["X_train_cat"],
                               OneHotEncoder_get_feature_names_out(enc, cf)))
    IN Assign(s4, "X_test_cat",
              DataFrame(s4.ns["X_test_cat"],
                        OneHotEncoder_get_feature_names_out(enc, cf)))

(* The frame the scaler is fitted on.                                      *)
scaler_fit_input(rs) == Columns(rs.ns["X_train"], rs.ns["numerical_features"])

scaler_cell(rs) ==
    LET nf == rs.ns["numerical_features"]
        s1 == Assign(rs, "scaler", StandardScaler_fit(scaler_fit_input(rs)))
        sc == s1.ns["scaler"]
        s2 == Assign(s1, "X_train_num",
                     StandardScaler_transform(sc, Columns(s1.ns["X_train"], nf)))
        s3 == Assign(s2, "X_test_num",
                     StandardScaler_transform(sc, Columns(s2.ns["X_test"], nf)))
        s4 == Assign(s3, "X_train_num", DataFrame(s3.ns["X_train_num"], nf))
    IN Assign(s4, "X_test_num", DataFrame(s4.ns["X_test_num"], nf))

concat_cell(rs) ==
    LET s1 == Assign(rs, "X_train",
                     concat_axis1(rs.ns["X_train_num"], rs.ns["X_train_cat"]))
    IN Assign(s1, "X_test", concat_axis1(s1.ns["X_test_num"], s1.ns["X_test_cat"]))

lasso_fit_alpha1(rs) ==
    LET s1 == Assign(rs, "lasso_mod", Estimator("Lasso", [alpha |-> Rational(1, 1)]))
    IN fit(s1, "lasso_mod", s1.ns["X_train"], s1.ns["y_train"])

(* The training half of an evaluation cell.                                *)
eval_train(rs, model, X) ==
    LET s1 == assign_predict(rs, "pred_train", model, X, {"X"})
        s2 == Assign(s1, "r2_train", r2_score(s1.ns["y_train"], s1.ns["pred_train"]))
        s3 == Assign(s2, "rmse_train",
                     mean_squared_error(s2.ns["y_train"], s2.ns["pred_train"], FALSE))
        s4 == print(s3, "R2 on training set:", round(s3.ns["r2_train"], 2))
        s5 == print(s4, "RMSE on training set:", round(s4.ns["rmse_train"], 2))
    IN print_line(s5, "===")

(* The test half of an evaluation cell: the keywords given to predict and  *)
(* whether mean_squared_error is asked for the squared error.              *)
eval_test(rs, model, X, predict_kw, squared) ==
    LET s1 == assign_predict(rs, "pred_test", model, X, predict_kw)
        s2 == Assign(s1, "r2_test", r2_score(s1.ns["y_test"], s1.ns["pred_test"]))
        s3 == Assign(s2, "rmse_test",
                     mean_squared_error(s2.ns["y_test"], s2.ns["pred_test"], squared))
        s4 == print(s3, "R2 on test set:", round(s3.ns["r2_test"], 2))
    IN print(s4, "RMSE on test set:", round(s4.ns["rmse_test"], 2))

lasso_eval_alpha1(rs) ==
    eval_test(eval_train(rs, "lasso_mod", "X_train"),
              "lasso_mod", "X_test", {"X"}, FALSE)

(* The alpha loop, lines 310-331.                                          *)
num_alphas == 100

alpha_stop == 1000

(* alphas = np.linspace(0, 1000, 100); lasso_mod = Lasso(); results = [];  *)
(* the for statement takes its iterator over alphas.                       *)
lasso_loop_enter(rs) ==
    LET s1 == Assign(rs, "alphas", linspace(alpha_stop, num_alphas))
        s2 == Assign(s1, "lasso_mod", Estimator("Lasso", [alpha |-> Rational(1, 1)]))
        s3 == Assign(s2, "results", <<>>)
    IN [s3 EXCEPT !.iter = s3.ns["alphas"]]

(* result = {} hoisted out of the loop: every iteration writes the dict    *)
(* the first one made.                                                     *)
new_result_hoisted(rs) ==
    IF "result" \in DOMAIN rs.ns THEN rs
    ELSE Assign([rs EXCEPT !.heap = Append(@, <<>>)], "result", Len(rs.heap) + 1)

(* name = {}: a new dict object; name refers to it.                        *)
new_dict(rs, name) ==
    Assign([rs EXCEPT !.heap = Append(@, <<>>)], name, Len(rs.heap) + 1)

(* name[key] = v: the dict object name refers to is changed in place.      *)
dict_setitem(rs, name, key, v) ==
    IF rs.status # "running" THEN rs
    ELSE [rs EXCEPT !.heap[rs.ns[name]] = Bind(@, key, v)]

(* result = {} in a body that also makes the collection the loop runs      *)
(* over longer.                                                            *)
new_result_extending(rs) ==
    LET s1 == new_dict(rs, "result")
    IN [s1 EXCEPT !.iter = Append(@, @[1])]

(* result = {}                                                             *)
new_result(rs) == new_dict(rs, "result")

(* result[key] = v                                                         *)
setitem(rs, key, v) == dict_setitem(rs, "result", key, v)

(* for i in range(0, len(coef_names)): result[coef_names[i]] =             *)
(* coef_values[i], from i on.                                              *)
RECURSIVE coef_loop(_, _)
coef_loop(rs, i) ==
    IF i > Len(rs.ns["coef_names"]) THEN rs
    ELSE coef_loop(setitem(Assign(rs, "i", i - 1),
                           rs.ns["coef_names"][i], rs.ns["coef_values"][i]),
                   i + 1)

(* One iteration of the body, for the k-th value of the iterator.          *)
lasso_loop_body(rs, k) ==
    LET s0 == Assign(rs, "a", rs.iter[k])
        s1 == new_result(s0)
        s2 == Assign(s1, "lasso_mod",
                     [s1.ns["lasso_mod"] EXCEPT !.params.alpha = s1.ns["a"]])
        s3 == fit(s2, "lasso_mod", s2.ns["X_train"], s2.ns["y_train"])
        s4 == assign_predict(s3, "pred_test", "lasso_mod", "X_test", {"X"})
        s5 == Assign(s4, "rmse_test",
                     mean_squared_error(s4.ns["y_test"], s4.ns["pred_test"], FALSE))
        s6 == Assign(s5, "coef_names", feature_names_in_(s5, s5.ns["lasso_mod"]))
        s7 == Assign(s6, "coef_values", coef_(s6, s6.ns["lasso_mod"]))
        s8 == setitem(s7, "alpha", s7.ns["a"])
        s9 == setitem(s8, "rmse", s8.ns["rmse_test"])
        s10 == coef_loop(s9, 1)
    IN Assign(s10, "results", Append(s10.ns["results"], s10.ns["result"]))

(* The cell saving its frame: results_df.to_csv('results.csv') after the   *)
(* assignment.                                                             *)
lasso_results_df_saved(rs) ==
    to_csv(Assign(rs, "results_df",
                  [k \in 1..Len(rs.ns["results"]) |-> rs.heap[rs.ns["results"][k]]]),
           "results_df", "results.csv")

(* results_df = pd.DataFrame(results): one row per dict of the list.       *)
lasso_results_df(rs) ==
    Assign(rs, "results_df",
           [k \in 1..Len(rs.ns["results"]) |-> rs.heap[rs.ns["results"][k]]])

tile_reps == 283

(* Lines 357-362: the frame in long format, with the alpha and the rmse of *)
(* each row of results_df repeated once per coefficient column (283 in the *)
(* recorded run); the plot that follows binds nothing.                     *)
lasso_melt(rs) ==
    LET s1 == Assign(rs, "results_df_long",
                     [melt |-> "results_df", columns |-> <<"variable", "value">>])
        s2 == Assign(s1, "alphas_m", [tile |-> "alpha", reps |-> tile_reps])
        s3 == Assign(s2, "rmses_m", [tile |-> "rmse", reps |-> tile_reps])
    IN Assign(s3, "results_df_long",
              [melt |-> "results_df",
               columns |-> <<"variable", "value", "alpha", "rmse">>])

cv_folds == 5

lasso_cv(rs) ==
    LET s1 == Assign(rs, "lasso_mod_cv",
                     Estimator("LassoCV", [cv |-> cv_folds, alphas |-> rs.ns["alphas"],
                                           random_state |-> 42]))
    IN fit(s1, "lasso_mod_cv", s1.ns["X_train"], s1.ns["y_train"])

lasso_tuned(rs) ==
    LET s1 == Assign(rs, "lasso_mod_tuned",
                     Estimator("Lasso", [alpha |-> alpha_(rs, rs.ns["lasso_mod_cv"])]))
    IN fit(s1, "lasso_mod_tuned", s1.ns["X_train"], s1.ns["y_train"])

lasso_eval_tuned(rs) ==
    eval_test(eval_train(rs, "lasso_mod_tuned", "X_train"),
              "lasso_mod_tuned", "X_test", {"X"}, FALSE)

(* The frame the interaction layout is fitted on.                          *)
interact_fit_input(rs) == rs.ns["X_train"]

lasso_interact(rs) ==
    LET s1 == Assign(rs, "interact", PolynomialFeatures_fit(interact_fit_input(rs)))
        ia == s1.ns["interact"]
        s2 == Assign(s1, "X_train_interact",
                     PolynomialFeatures_transform(ia, s1.ns["X_train"]))
        s3 == Assign(s2, "X_train_interact",
                     DataFrame(s2.ns["X_train_interact"],
                               PolynomialFeatures_get_feature_names_out(ia)))
        s4 == Assign(s3, "X_test_interact",
                     PolynomialFeatures_transform(ia, s3.ns["X_test"]))
    IN Assign(s4, "X_test_interact",
              DataFrame(s4.ns["X_test_interact"],
                        PolynomialFeatures_get_feature_names_out(ia)))

alpha_stop_interact == 10000

cv_folds_interact == 2

(* The second search handed the grid that alphas is bound to on entry.     *)
lasso_interact_cv_entry_grid(rs) ==
    LET s2 == Assign(rs, "lasso_mod_interact_cv",
                     Estimator("LassoCV", [cv |-> cv_folds_interact,
                                           alphas |-> rs.ns["alphas"],
                                           random_state |-> 42]))
    IN fit(s2, "lasso_mod_interact_cv", s2.ns["X_train_interact"], s2.ns["y_train"])

lasso_interact_cv(rs) ==
    LET s1 == Assign(rs, "alphas", linspace(alpha_stop_interact, num_alphas))
        s2 == Assign(s1, "lasso_mod_interact_cv",
                     Estimator("LassoCV", [cv |-> cv_folds_interact,
                                           alphas |-> s1.ns["alphas"],
                                           random_state |-> 42]))
    IN fit(s2, "lasso_mod_interact_cv", s2.ns["X_train_interact"], s2.ns["y_train"])

lasso_interact_tuned(rs) ==
    LET s1 == Assign(rs, "lasso_mod_interact_tuned",
                     Estimator("Lasso",
                               [alpha |-> alpha_(rs, rs.ns["lasso_mod_interact_cv"])]))
    IN fit(s1, "lasso_mod_interact_tuned", s1.ns["X_train_interact"], s1.ns["y_train"])

(* Lines 604-618: predict is given squared=False, mean_squared_error is    *)
(* not.                                                                    *)
lasso_eval_interact_tuned(rs) ==
    eval_test(eval_train(rs, "lasso_mod_interact_tuned", "X_train_interact"),
              "lasso_mod_interact_tuned", "X_test_interact", {"X", "squared"}, TRUE)

(* The code cells of the notebook, in order.                               *)
lasso_cells ==
    <<"setup", "setup", "lasso_read_csv", "display", "lasso_drop", "lasso_split",
      "dtypes", "enc", "display", "scaler", "display", "concat", "display",
      "lasso_fit_alpha1", "lasso_eval_alpha1", "lasso_loop", "lasso_results_df",
      "lasso_melt", "display", "lasso_cv", "display", "lasso_tuned",
      "lasso_eval_tuned", "display", "lasso_interact", "display", "display",
      "lasso_interact_cv", "lasso_interact_tuned", "lasso_eval_interact_tuned">>

----------------------------------------------------------------------------
(* micro_mortgages/stacking.ipynb, cell by cell.  The cells that split     *)
(* the data and engineer the features are the code of lasso.ipynb.         *)

MicroMortgageUrl ==
    "https://raw.githubusercontent.com/olivermueller/vhbprodok_datascience/main/micro_mortgages/data/micromortgage.csv"

stacking_read_csv(rs) == read_csv(rs, "data", MicroMortgageUrl)

(* data["Tier"].apply(lambda x: "T"+str(x)): the column becomes a column   *)
(* of strings; the string "T"+str(x) is written as its code x.             *)
apply_T(df, c) ==
    [df EXCEPT !.dtypes[IndexOf(df.cols, c)] = "object"]

stacking_prepare(rs) ==
    IF ~HasColumns(rs.ns["data"], <<"ID">>) THEN Raise(rs, "KeyError")
    ELSE LET s1 == Assign(rs, "data", drop(rs.ns["data"], <<"ID">>))
         IN IF ~HasColumns(s1.ns["data"], <<"Tier">>) THEN Raise(s1, "KeyError")
            ELSE Assign(s1, "data", apply_T(s1.ns["data"], "Tier"))

stacking_split(rs) == split_cell(rs, "Decision")

(* np.logspace(start, stop, num): 10 to the powers of linspace.            *)
logspace(start, stop, num) ==
    [k \in 1..num |->
        [exp10 |-> Rational(start * (num - 1) + (k - 1) * (stop - start), num - 1)]]

(* LogisticRegression(random_state=42): the parameters not given keep the  *)
(* library's defaults, penalty='l2', C=1.0, solver='lbfgs'.                *)
LogisticRegression ==
    Estimator("LogisticRegression",
              [penalty |-> "l2", C |-> Rational(1, 1), solver |-> "lbfgs",
               random_state |-> 42])

grid_cv == 5

logspace_num == 10

(* model_lasso_cv(): a call of the lambda makes a new grid search.         *)
model_lasso_cv ==
    Estimator("GridSearchCV",
              [estimator |-> LogisticRegression,
               param_grid |-> [C |-> logspace(-4, 4, logspace_num)],
               cv |-> grid_cv, n_jobs |-> -1])

(* A forest that is given no random_state.                                 *)
RandomForestClassifier_unseeded ==
    Estimator("RandomForestClassifier", [n_estimators |-> 100])

RandomForestClassifier ==
    Estimator("RandomForestClassifier", [random_state |-> 42])

model_rf_cv ==
    Estimator("GridSearchCV",
              [estimator |-> RandomForestClassifier,
               param_grid |-> [n_estimators |-> <<100, 200, 300>>,
                               max_depth |-> <<"3", "5", "None">>,
                               min_samples_leaf |-> <<2, 5, 10>>],
               cv |-> grid_cv, n_jobs |-> -1])

(* The definition cells bind the lambdas.                                  *)
stacking_def_lasso(rs) == Assign(rs, "model_lasso_cv", [lambda |-> "model_lasso_cv"])

(* The second definition cell binding the first one's name again.          *)
stacking_def_rf_as_lasso(rs) ==
    Assign(rs, "model_lasso_cv", [lambda |-> "model_rf_cv"])

stacking_def_rf(rs) == Assign(rs, "model_rf_cv", [lambda |-> "model_rf_cv"])

stacking_fit_lasso(rs) ==
    LET s1 == Assign(rs, "model_lasso_tuned", model_lasso_cv)
    IN fit(s1, "model_lasso_tuned", s1.ns["X_train"], s1.ns["y_train"])

stacking_fit_rf(rs) ==
    LET s1 == Assign(rs, "model_rf_tuned", model_rf_cv)
    IN fit(s1, "model_rf_tuned", s1.ns["X_train"], s1.ns["y_train"])

(* The estimator a fitted grid search predicts with: the estimator it was  *)
(* given, its searched parameters set to the best candidates of the        *)
(* cross-validation on the data of the fit.                                *)
best_estimator_(rs, est) ==
    [class |-> est.params.estimator.class,
     params |-> [q \in DOMAIN est.params.estimator.params \cup DOMAIN est.params.param_grid |->
                    IF q \in DOMAIN est.params.param_grid
                    THEN [argmax_cv |-> rs.fits[est.fitted], param |-> q]
                    ELSE est.params.estimator.params[q]]]

(* The names of a parameter grid in sorted order.                          *)
sorted_keys(grid) ==
    SelectSeq(<<"C", "max_depth", "min_samples_leaf", "n_estimators">>,
              LAMBDA q : q \in DOMAIN grid)

RECURSIVE grid_size(_, _)
grid_size(grid, names) ==
    IF names = <<>> THEN 1
    ELSE Len(grid[Head(names)]) * grid_size(grid, Tail(names))

(* ParameterGrid(param_grid): every combination of the values, the names   *)
(* sorted, the last name varying fastest.                                  *)
ParameterGrid(grid) ==
    LET names == sorted_keys(grid)
        stride(q) == grid_size(grid, SubSeq(names, IndexOf(names, q) + 1, Len(names)))
    IN [c \in 1..grid_size(grid, names) |->
           [q \in DOMAIN grid |->
               grid[q][(((c - 1) \div stride(q)) % Len(grid[q])) + 1]]]

(* The tasks of a grid search: every candidate on every fold, the folds of *)
(* a candidate next to each other.                                         *)
Tasks(search) ==
    LET candidates == ParameterGrid(search.params.param_grid)
    IN [t \in 1..(Len(candidates) * search.params.cv) |->
           [candidate |-> candidates[((t - 1) \div search.params.cv) + 1],
            fold |-> ((t - 1) % search.params.cv) + 1]]

(* The processors n_jobs=-1 stands for.                                    *)
NWorkers == 2

(* The tasks the workers hold at a time: batch b of the tasks.             *)
Batch(n, b) ==
    {t \in 1..n : (b - 1) * NWorkers < t /\ t <= b * NWorkers}

(* The orders in which the tasks of a batch may finish.                    *)
Orders(S) == {o \in [1..Cardinality(S) -> S] : Range(o) = S}

(* One task: a clone of the estimator with the candidate's parameters is   *)
(* fitted and scored on a fold. An estimator with a random_state is seeded *)
(* with it; one without draws from the generator of its worker, whose      *)
(* state depends on the turn at which the task runs.                       *)
fit_and_score(estimator, task, turn) ==
    [params |-> task.candidate, fold |-> task.fold,
     random_state |-> IF "random_state" \in DOMAIN estimator.params
                      THEN [seed |-> estimator.params.random_state]
                      ELSE [drawn_at |-> turn]]

(* name = search; name.fit(X, y) begins: the tasks are laid out.           *)
search_enter(rs, name, search) ==
    LET s1 == Assign(rs, name, search)
    IN [s1 EXCEPT !.jobs.tasks = Tasks(search), !.jobs.results = <<>>]

(* The results of the finished tasks are kept at the tasks' positions,     *)
(* whatever the order in which they finished.                              *)
search_collect(rs, name, b, order) ==
    LET first == (b - 1) * NWorkers
    IN [i \in 1..Len(order) |->
           fit_and_score(rs.ns[name].params.estimator, rs.jobs.tasks[first + i],
                         IndexOf(order, first + i))]

(* The search is over: it is logged as a fit with its results, and its     *)
(* fitted attributes are those of this fit.                                *)
search_refit(rs, name, results) ==
    LET s1 == fit(rs, name, rs.ns["X_train"], rs.ns["y_train"])
    IN [s1 EXCEPT !.fits[Len(s1.fits)] =
                      [class |-> @.class, params |-> @.params, X |-> @.X,
                       y |-> @.y, cv_results |-> results],
                  !.jobs.tasks = <<>>, !.jobs.results = <<>>]

(* The tasks of batch b finish in the given order.                         *)
search_batch(rs, name, b, order) ==
    LET results == rs.jobs.results \o search_collect(rs, name, b, order)
        s1 == [rs EXCEPT !.jobs.results = results,
                         !.jobs.reordered =
                             IF \E i, j \in DOMAIN order : i < j /\ order[i] > order[j]
                             THEN @ \cup {name} ELSE @]
    IN IF Len(results) = Len(rs.jobs.tasks)
       THEN search_refit(s1, name, results)
       ELSE s1

(* The probabilities a classifier may return for the test rows, in units   *)
(* of 1/ProbScale.                                                         *)
ProbScale == 2

Probas(n) == [1..n -> {Rational(v, ProbScale) : v \in 0..ProbScale}]

(* est.predict_proba(X)[:, column]: p is what the library returns there.   *)
predict_proba(rs, est, X, column, p) ==
    [fit |-> est.fitted, X |-> X, column |-> column, p |-> p]

(* pred_x_label = model.predict(X_test);                                   *)
(* pred_x_proba = model.predict_proba(X_test)[:,1]                         *)
pred_cell(rs, model, label, proba, p) ==
    LET s1 == assign_predict(rs, label, model, "X_test", {"X"})
    IN Assign(s1, proba, predict_proba(s1, s1.ns[model], s1.ns["X_test"], 1, p))

stacking_pred_lasso(rs, p) ==
    pred_cell(rs, "model_lasso_tuned", "pred_lasso_label", "pred_lasso_proba", p)

stacking_pred_rf(rs, p) ==
    pred_cell(rs, "model_rf_tuned", "pred_rf_label", "pred_rf_proba", p)

classification_report(y_true, y_pred) ==
    [metric |-> "classification_report", y_true |-> y_true, y_pred |-> y_pred]

roc_auc_score(y_true, y_score) ==
    [metric |-> "roc_auc_score", y_true |-> y_true, y_score |-> y_score]

(* A cell whose last expression is a value shows it.                       *)
display(rs, v) == print(rs, "Out", v)

stacking_report_lasso(rs) ==
    print(rs, "", classification_report(rs.ns["y_test"], rs.ns["pred_lasso_label"]))

stacking_auc_lasso(rs) ==
    display(rs, roc_auc_score(rs.ns["y_test"], rs.ns["pred_lasso_proba"]))

stacking_report_rf(rs) ==
    print(rs, "", classification_report(rs.ns["y_test"], rs.ns["pred_rf_label"]))

stacking_auc_rf(rs) ==
    display(rs, roc_auc_score(rs.ns["y_test"], rs.ns["pred_rf_proba"]))

(* Arithmetic of numpy arrays of probabilities, element by element.        *)
array_add(a, b) ==
    [i \in 1..Len(a) |-> Rational(a[i].num * b[i].den + b[i].num * a[i].den,
                                  a[i].den * b[i].den)]

array_div(a, n) == [i \in 1..Len(a) |-> Rational(a[i].num, a[i].den * n)]

(* pred_lasso_proba + pred_rf_proba / 2, the expression without its        *)
(* parentheses.                                                            *)
stack_expr_unparenthesised(a, b) == array_add(a, array_div(b, 2))

(* (pred_lasso_proba + pred_rf_proba) / 2                                  *)
stack_expr(a, b) == array_div(array_add(a, b), 2)

stacking_stack(rs) ==
    IF Len(rs.ns["pred_lasso_proba"].p) # Len(rs.ns["pred_rf_proba"].p)
    THEN Raise(rs, "ValueError")
    ELSE Assign(rs, "pred_final_proba",
                stack_expr(rs.ns["pred_lasso_proba"].p, rs.ns["pred_rf_proba"].p))

stacking_auc_final(rs) ==
    display(rs, roc_auc_score(rs.ns["y_test"], rs.ns["pred_final_proba"]))

stacking_cells ==
    <<"setup", "setup", "stacking_read_csv", "display", "stacking_prepare",
      "stacking_split", "dtypes", "display", "display", "enc", "display",
      "scaler", "display", "concat", "stacking_def_lasso", "stacking_fit_lasso",
      "stacking_pred_lasso", "stacking_report_lasso", "stacking_auc_lasso",
      "stacking_def_rf", "stacking_fit_rf", "stacking_pred_rf",
      "stacking_report_rf", "stacking_auc_rf", "stacking_stack",
      "stacking_auc_final">>

----------------------------------------------------------------------------
(* ames_housing/stepwise_feature_selection.ipynb, cell by cell.            *)

stepwise_read_csv(rs) == read_csv(rs, "data", AmesTrainUrl)

stepwise_columns ==
    <<"SalePrice", "LotArea", "GrLivArea", "FullBath", "BedroomAbvGr",
      "KitchenAbvGr", "OverallQual", "OverallCond">>

stepwise_select(rs) ==
    IF HasColumns(rs.ns["data"], stepwise_columns)
    THEN Assign(rs, "data", Columns(rs.ns["data"], stepwise_columns))
    ELSE Raise(rs, "KeyError")

stepwise_split(rs) == split_cell(rs, "SalePrice")

LinearRegression == Estimator("LinearRegression", <<>>)

sfs_cv == 5

SequentialFeatureSelector(est, k) ==
    Estimator("SequentialFeatureSelector",
              [estimator |-> est, n_features_to_select |-> k,
               direction |-> "forward",
               scoring |-> "neg_root_mean_squared_error", cv |-> sfs_cv])

(* The sets of columns a forward selection of k of the columns of X may    *)
(* return.  The selection adds one column at a time and is a function of   *)
(* the data, so on the data of an earlier selection it extends the smaller *)
(* and is part of the larger selections made there.                        *)
Selections(rs, X, y, k) ==
    {S \in SUBSET Range(X.cols) :
        /\ Cardinality(S) = k
        /\ \A j \in 1..Len(rs.fits) :
              LET e == rs.fits[j]
              IN (e.class = "SequentialFeatureSelector" /\ e.X = X /\ e.y = y) =>
                    /\ e.params.n_features_to_select <= k => e.support \subseteq S
                    /\ e.params.n_features_to_select >= k => S \subseteq e.support}

(* sfs.fit(X, y) selecting the columns S: the number to select must be     *)
(* smaller than the number of columns.                                     *)
sfs_fit(rs, name, X, y, S) ==
    IF rs.status # "running" THEN rs
    ELSE IF rs.ns[name].params.n_features_to_select >= Len(X.cols)
    THEN Raise(rs, "ValueError")
    ELSE LET est == rs.ns[name]
             rec == [class |-> est.class, params |-> est.params, X |-> X, y |-> y,
                     support |-> S]
         IN [rs EXCEPT !.fits = Append(@, rec),
                       !.ns = Bind(@, name, [est EXCEPT !.fitted = Len(rs.fits) + 1])]

(* The names of all columns the selector was fitted on.                    *)
get_feature_names_out_of_input(rs, est) == feature_names_in_(rs, est)

(* sfs.get_feature_names_out(): the selected columns, in the order of the  *)
(* columns of the data.                                                    *)
get_feature_names_out(rs, est) ==
    SelectSeq(rs.fits[est.fitted].X.cols,
              LAMBDA c : c \in rs.fits[est.fitted].support)

n_features_first == 3

stepwise_sfs(rs, S) ==
    LET s1 == Assign(rs, "lm", LinearRegression)
        s2 == Assign(s1, "sfs_fwd",
                     SequentialFeatureSelector(s1.ns["lm"], n_features_first))
    IN sfs_fit(s2, "sfs_fwd", s2.ns["X_train"], s2.ns["y_train"], S)

(* mod_selected_features = LinearRegression().fit(X_train[names], y_train) *)
(* preds_selected_features = mod_selected_features.predict(X_test[names])  *)
fit_selected(rs) ==
    IF rs.status # "running" THEN rs
    ELSE LET names == get_feature_names_out(rs, rs.ns["sfs_fwd"])
             s1 == Assign(rs, "mod_selected_features", LinearRegression)
             s2 == fit(s1, "mod_selected_features",
                       Columns(s1.ns["X_train"], names), s1.ns["y_train"])
         IN Assign(s2, "preds_selected_features",
                   predict(s2, s2.ns["mod_selected_features"],
                           Columns(s2.ns["X_test"], names)))

stepwise_fit_selected(rs) ==
    LET s1 == fit_selected(rs)
    IN print(s1, "",
             mean_squared_error(s1.ns["y_test"], s1.ns["preds_selected_features"], FALSE))

(* range(a, b): the integers from a up to, not including, b.               *)
range(a, b) == [k \in 1..(IF b > a THEN b - a ELSE 0) |-> a + k - 1]

range_start == 1

range_stop == 7

stepwise_range == range(range_start, range_stop)

(* log = []; the for statement takes its iterator over range(1, 7).        *)
stepwise_loop_enter(rs) ==
    LET s1 == Assign(rs, "log", <<>>)
    IN [s1 EXCEPT !.iter = stepwise_range]

(* One iteration of the body, for the k-th value of the iterator, the      *)
(* selector choosing the columns S.                                        *)
stepwise_loop_body(rs, k, S) ==
    LET s0 == Assign(rs, "i", rs.iter[k])
        s1 == new_dict(s0, "entry")
        s2 == Assign(s1, "sfs_fwd",
                     SequentialFeatureSelector(s1.ns["lm"], s1.ns["i"]))
        s3 == sfs_fit(s2, "sfs_fwd", s2.ns["X_train"], s2.ns["y_train"], S)
        s4 == fit_selected(s3)
        s5 == Assign(s4, "rmse",
                     mean_squared_error(s4.ns["y_test"],
                                        s4.ns["preds_selected_features"], FALSE))
        s6 == dict_setitem(s5, "entry", "n_features", s5.ns["i"])
        s7 == IF s6.status # "running" THEN s6
              ELSE dict_setitem(s6, "entry", "features",
                                get_feature_names_out(s6, s6.ns["sfs_fwd"]))
        s8 == dict_setitem(s7, "entry", "rmse", s7.ns["rmse"])
    IN Assign(s8, "log", Append(s8.ns["log"], s8.ns["entry"]))

(* log_df = pd.DataFrame(log): one row per dict of the list.               *)
stepwise_log_df(rs) ==
    Assign(rs, "log_df", [k \in 1..Len(rs.ns["log"]) |-> rs.heap[rs.ns["log"][k]]])

stepwise_cells ==
    <<"setup", "setup", "stepwise_read_csv", "display", "display", "display",
      "stepwise_select", "display", "stepwise_split", "stepwise_sfs", "display",
      "stepwise_fit_selected", "stepwise_loop", "stepwise_log_df", "display",
      "empty">>

----------------------------------------------------------------------------
(* ames_housing/linear_models.ipynb, cell by cell.                         *)

TrainCsvPath == "data/train.csv"

TestCsvPath == "data/test.csv"

SubmissionPath == "submission.csv"

linear_read_train(rs) == read_csv(rs, "data_train", TrainCsvPath)

linear_columns ==
    <<"SalePrice", "Neighborhood", "HouseStyle", "LotArea", "GrLivArea",
      "FullBath", "BedroomAbvGr", "KitchenAbvGr", "OverallQual", "OverallCond">>

linear_select(rs) ==
    IF HasColumns(rs.ns["data_train"], linear_columns)
    THEN Assign(rs, "data_train", Columns(rs.ns["data_train"], linear_columns))
    ELSE Raise(rs, "KeyError")

(* Python's a ^ b on integers: the bitwise exclusive or.                   *)
RECURSIVE BitXor(_, _)
BitXor(a, b) ==
    IF a = 0 /\ b = 0 THEN 0
    ELSE (((a % 2) + (b % 2)) % 2) + 2 * BitXor(a \div 2, b \div 2)

(* A formula as patsy reads it: the left-hand term and the right-hand      *)
(* terms, the intercept aside.  The operators of a formula are ~ + - * /   *)
(* : and **; anything else between them is the Python code of one factor,  *)
(* evaluated on the columns of the data.  a * b stands for a + b + a:b.    *)
Term(name, kind, cols, operand) ==
    [name |-> name, kind |-> kind, cols |-> cols, operand |-> operand]

Numeric(c) == Term(c, "numeric", <<c>>, 0)

Formula(text, lhs, rhs) == [text |-> text, lhs |-> lhs, rhs |-> rhs]

(* The value of a term for one row of the data; the columns a categorical  *)
(* term or an interaction expands to are kept as one value.                *)
eval_term(t, df, i) ==
    LET v == [k \in 1..Len(t.cols) |-> df.rows[i][IndexOf(df.cols, t.cols[k])]]
    IN CASE t.kind = "numeric" -> v[1]
         [] t.kind = "xor" -> BitXor(v[1], t.operand)
         [] OTHER -> [kind |-> t.kind, of |-> v]

(* The design matrix of the right-hand side, the intercept first.          *)
dmatrix(terms, df) ==
    [cols |-> <<"Intercept">> \o [k \in 1..Len(terms) |-> terms[k].name],
     dtypes |-> [k \in 1..(Len(terms) + 1) |-> "float64"],
     rows |-> [i \in 1..Len(df.rows) |->
                 <<1>> \o [k \in 1..Len(terms) |-> eval_term(terms[k], df, i)]]]

TermColumns(terms) == UNION {Range(terms[k].cols) : k \in 1..Len(terms)}

(* The R-squared and the coefficient table of a fitted model.              *)
summary(rs, est) == [metric |-> "summary", fit |-> est.fitted]

(* mod = smf.ols(formula=..., data=data_train); mod = mod.fit();           *)
(* print(mod.summary())                                                    *)
ols_cell(rs, name, formula) ==
    IF rs.status # "running" THEN rs
    ELSE IF ~(TermColumns(formula.rhs) \cup Range(formula.lhs.cols)
                \subseteq Range(rs.ns["data_train"].cols))
    THEN Raise(rs, "PatsyError")
    ELSE LET df == rs.ns["data_train"]
             s1 == Assign(rs, name, Estimator("OLS", [formula |-> formula]))
             s2 == fit(s1, name, dmatrix(formula.rhs, df),
                       [i \in 1..Len(df.rows) |-> eval_term(formula.lhs, df, i)])
         IN print(s2, "", summary(s2, s2.ns[name]))

linear_mod_01(rs) ==
    ols_cell(rs, "mod_01",
             Formula("SalePrice ~ GrLivArea", Numeric("SalePrice"),
                     <<Numeric("GrLivArea")>>))

linear_mod_03(rs) ==
    ols_cell(rs, "mod_03",
             Formula("SalePrice ~ GrLivArea + BedroomAbvGr", Numeric("SalePrice"),
                     <<Numeric("GrLivArea"), Numeric("BedroomAbvGr")>>))

linear_mod_04(rs) ==
    ols_cell(rs, "mod_04",
             Formula("SalePrice ~ GrLivArea + BedroomAbvGr + HouseStyle",
                     Numeric("SalePrice"),
                     <<Term("HouseStyle", "categorical", <<"HouseStyle">>, 0),
                       Numeric("GrLivArea"), Numeric("BedroomAbvGr")>>))

linear_mod_05a(rs) ==
    ols_cell(rs, "mod_05",
             Formula("SalePrice ~ GrLivArea * LotArea", Numeric("SalePrice"),
                     <<Numeric("GrLivArea"), Numeric("LotArea"),
                       Term("GrLivArea:LotArea", "interaction",
                            <<"GrLivArea", "LotArea">>, 0)>>))

linear_mod_05b(rs) ==
    ols_cell(rs, "mod_05",
             Formula("SalePrice ~ GrLivArea * C(OverallQual)", Numeric("SalePrice"),
                     <<Term("C(OverallQual)", "categorical", <<"OverallQual">>, 0),
                       Numeric("GrLivArea"),
                       Term("GrLivArea:C(OverallQual)", "interaction",
                            <<"GrLivArea", "OverallQual">>, 0)>>))

linear_mod_07a(rs) ==
    ols_cell(rs, "mod_07a",
             Formula("np.log(SalePrice) ~ BedroomAbvGr",
                     Term("np.log(SalePrice)", "log", <<"SalePrice">>, 0),
                     <<Numeric("BedroomAbvGr")>>))

linear_mod_07b(rs) ==
    ols_cell(rs, "mod_07b",
             Formula("SalePrice ~ BedroomAbvGr", Numeric("SalePrice"),
                     <<Numeric("BedroomAbvGr")>>))

(* GrLivArea^2 is the Python code of one factor: ^ is no operator of the   *)
(* formula language.                                                       *)
linear_mod_08(rs) ==
    ols_cell(rs, "mod_08",
             Formula("SalePrice ~ GrLivArea + GrLivArea^2", Numeric("SalePrice"),
                     <<Numeric("GrLivArea"),
                       Term("GrLivArea ^ 2", "xor", <<"GrLivArea">>, 2)>>))

linear_read_test(rs) == read_csv(rs, "data_test", TestCsvPath)

(* preds = mod_03.predict(data_test): the design matrix of the model's     *)
(* right-hand side is built from data_test.                                *)
linear_predict(rs) ==
    IF rs.status # "running" THEN rs
    ELSE LET terms == rs.ns["mod_03"].params.formula.rhs
         IN IF ~(TermColumns(terms) \subseteq Range(rs.ns["data_test"].cols))
            THEN Raise(rs, "PatsyError")
            ELSE Assign(rs, "preds",
                        predict(rs, rs.ns["mod_03"], dmatrix(terms, rs.ns["data_test"])))

(* my_submission = pd.DataFrame({'HouseId': data_test["house_id"],         *)
(* 'SalePrice': preds})                                                    *)
linear_submission(rs) ==
    IF rs.status # "running" THEN rs
    ELSE IF ~HasColumns(rs.ns["data_test"], <<"house_id">>) THEN Raise(rs, "KeyError")
    ELSE LET id == Column(rs.ns["data_test"], "house_id")
         IN Assign(rs, "my_submission",
                   [cols |-> <<"HouseId", "SalePrice">>,
                    dtypes |-> <<"int64", "float64">>,
                    rows |-> [i \in 1..Len(id) |->
                                <<id[i], [fit |-> rs.ns["preds"].fit,
                                          x |-> rs.ns["preds"].X.rows[i]]>>]])

linear_to_csv(rs) == to_csv(rs, "my_submission", SubmissionPath)

linear_cells ==
    <<"setup", "setup", "linear_read_train", "display", "display", "display",
      "linear_select", "display", "display", "display", "display", "empty",
      "display", "empty", "display", "display", "display", "empty", "display",
      "linear_mod_01", "empty", "linear_mod_03", "linear_mod_04", "display",
      "linear_mod_05a", "linear_mod_05b", "linear_mod_07a", "linear_mod_07b",
      "linear_mod_08", "linear_read_test", "display", "linear_predict",
      "display", "linear_submission", "display", "linear_to_csv">>

----------------------------------------------------------------------------
(* football_shots/retrieve_data_from_statsbomb_api.ipynb and its copy      *)
(* unnamed/part_000, cell by cell.                                         *)

StatsBombQuery ==
    "sb.competition_events(country=Germany, division=1. Bundesliga, season=2015/2016, gender=male)"

(* Every event filed under shots, whatever its type.                       *)
group_key_shots_only(type) == "shots"

(* The key competition_events(split=True) files an event type under.       *)
group_key(type) ==
    CASE type = "Shot" -> "shots"
      [] type = "Pass" -> "passes"

(* sb.competition_events(..., split=True): the events the API returns for  *)
(* the competition, one frame per event type that occurs.                  *)
competition_events(events) ==
    [key \in {group_key(events[i].type) : i \in 1..Len(events)} |->
        SelectSeq(events, LAMBDA e : group_key(e.type) = key)]

statsbomb_query(rs) ==
    LET s1 == Access(rs, "query", StatsBombQuery)
    IN Assign(s1, "grouped_events", competition_events(s1.disk[StatsBombQuery]))

(* shots = grouped_events["shots"]                                         *)
statsbomb_shots(rs) ==
    IF rs.status # "running" THEN rs
    ELSE IF "shots" \notin DOMAIN rs.ns["grouped_events"] THEN Raise(rs, "KeyError")
    ELSE Assign(rs, "shots", rs.ns["grouped_events"]["shots"])

(* s.value_counts(): how often each value occurs, missing values aside.    *)
value_counts(s) ==
    [v \in Range(s) \ {"NaN"} |-> Cardinality({i \in 1..Len(s) : s[i] = v})]

(* shots["shot_outcome"].value_counts()                                    *)
statsbomb_value_counts(rs) ==
    IF rs.status # "running" THEN rs
    ELSE display(rs, [value_counts |->
                        value_counts([i \in 1..Len(rs.ns["shots"]) |->
                                         rs.ns["shots"][i].shot_outcome])])

(* The output recorded for shots.shape: 7831 rows.                         *)
recorded_rows == 7831

(* The output recorded for shots["shot_outcome"].value_counts(): Off T,    *)
(* Saved, Blocked, Goal, Wayward, Post, Saved to Post, Saved Off Target.   *)
recorded_value_counts == <<2452, 1961, 1820, 837, 550, 160, 35, 16>>

statsbomb_cells ==
    <<"setup", "statsbomb_query", "display", "statsbomb_shots", "display",
      "display", "display", "display", "display", "statsbomb_value_counts">>

(* The copy starts with a cell that holds only comments.                   *)
part_000_cells == <<"empty">> \o statsbomb_cells

----------------------------------------------------------------------------
(* The files read.  The rows at the training positions are drawn from      *)
(* TrainRows, the rows at the test positions from TestRows, which has a    *)
(* category the training rows never have.  A row is <<category, number,    *)
(* target>>.                                                               *)

TrainRows == {<<1, 0, 1>>, <<MaxCat, MaxNum, MaxPrice>>}

TestRows == (1..(MaxCat + 1)) \X (0..MaxNum) \X (1..MaxPrice)

TestPositions(n) == {permutation(n)[k] : k \in 1..n_test(n)}

(* The file f with the rows te at the test positions.                      *)
WithTestRows(f, te) ==
    [i \in 1..NRows |-> IF i \in TestPositions(NRows) THEN te[i] ELSE f[i]]

RawFiles ==
    {WithTestRows(tr, te) : tr \in [1..NRows -> TrainRows],
                            te \in [TestPositions(NRows) -> TestRows]}

(* micromortgage.csv: the columns the notebook names, and one numerical    *)
(* column for the file's numerical columns.                                *)
MortgageFrame(f) ==
    [cols |-> <<"ID", "Tier", "Age", "Decision">>,
     dtypes |-> <<"int64", "int64", "int64", "int64">>,
     rows |-> [i \in 1..Len(f) |-> <<i, f[i][1], f[i][2], f[i][3]>>]]

(* train.csv: the columns stepwise_feature_selection.ipynb keeps, and two  *)
(* it does not.                                                            *)
AmesFrameStepwise(f) ==
    [cols |-> <<"house_id", "Neighborhood", "LotArea", "GrLivArea", "FullBath",
                "BedroomAbvGr", "KitchenAbvGr", "OverallQual", "OverallCond",
                "SalePrice">>,
     dtypes |-> <<"int64", "object", "int64", "int64", "int64", "int64",
                  "int64", "int64", "int64", "int64">>,
     rows |-> [i \in 1..Len(f) |->
                 <<i, f[i][1], 0, f[i][2], 1, 1, 1, f[i][2], 1, f[i][3]>>]]

(* data/train.csv: the columns linear_models.ipynb keeps, and house_id.    *)
AmesFrameLinear(f) ==
    [cols |-> <<"house_id", "SalePrice", "Neighborhood", "HouseStyle", "LotArea",
                "GrLivArea", "FullBath", "BedroomAbvGr", "KitchenAbvGr",
                "OverallQual", "OverallCond">>,
     dtypes |-> <<"int64", "int64", "object", "object", "int64", "int64",
                  "int64", "int64", "int64", "int64", "int64">>,
     rows |-> [i \in 1..Len(f) |->
                 <<i, f[i][3], f[i][1], 1, 0, f[i][2], 1, 1, 1, f[i][2], 1>>]]

(* data/test.csv: the houses to predict, without SalePrice.                *)
AmesTestFrame(g) ==
    drop(AmesFrameLinear(g), <<"SalePrice">>)

TestFiles == {<<t>> : t \in TrainRows}

(* The events the API returns: shots with their outcome, and passes.       *)
NEvents == 3

Events ==
    {[type |-> "Shot", shot_outcome |-> "Goal"],
     [type |-> "Shot", shot_outcome |-> "Saved"],
     [type |-> "Pass", shot_outcome |-> "NaN"]}

EventLogs == [1..NEvents -> Events]

(* The files all of whose rows are the same training row.                  *)
UniformFiles == {[i \in 1..NRows |-> t] : t \in TrainRows}

(* train.csv: the columns lasso.ipynb drops, one categorical and one       *)
(* numerical feature, and the target.                                      *)
AmesFrame(f) ==
    [cols |-> <<"house_id", "YrSold", "MoSold", "SaleCondition", "SaleType",
                "Neighborhood", "GrLivArea", "SalePrice">>,
     dtypes |-> <<"int64", "int64", "int64", "object", "object",
                  "object", "int64", "int64">>,
     rows |-> [i \in 1..Len(f) |-> <<i, 0, 0, 0, 0, f[i][1], f[i][2], f[i][3]>>]]

----------------------------------------------------------------------------
(* Execution: pc is the number of the next code cell of notebook nb, it    *)
(* the position of the running for loop's iterator (0 outside a loop).     *)

Cells ==
    CASE nb = "lasso" -> lasso_cells
      [] nb = "stacking" -> stacking_cells
      [] nb = "stepwise_feature_selection" -> stepwise_cells
      [] nb = "linear_models" -> linear_cells
      [] nb = "retrieve_data_from_statsbomb_api" -> statsbomb_cells
      [] nb = "part_000" -> part_000_cells

(* The names each code cell reads that the cell has not bound itself       *)
(* before the read (imported names and builtins left out).                 *)
Reads ==
    CASE nb = "lasso" ->
         <<{}, {}, {}, {"data"}, {"data"}, {"data"}, {"X_train"},
           {"X_test", "X_train", "categorical_features"}, {"X_train_cat"},
           {"X_test", "X_train", "numerical_features"}, {"X_train_num"},
           {"X_test_cat", "X_test_num", "X_train_cat", "X_train_num"},
           {"X_train"}, {"X_train", "y_train"},
           {"X_test", "X_train", "lasso_mod", "y_test", "y_train"},
           {"X_test", "X_train", "y_test", "y_train"}, {"results"},
           {"results_df"}, {"results_df_long"},
           {"X_train", "alphas", "y_train"}, {"lasso_mod_cv"},
           {"X_train", "lasso_mod_cv", "y_train"},
           {"X_test", "X_train", "lasso_mod_tuned", "y_test", "y_train"},
           {"X_train"}, {"X_test", "X_train"}, {"X_train_interact"},
           {"X_train_interact"}, {"X_train_interact", "y_train"},
           {"X_train_interact", "lasso_mod_interact_cv", "y_train"},
           {"X_test_interact", "X_train_interact", "lasso_mod_interact_tuned", "y_test", "y_train"}>>
      [] nb = "stacking" ->
         <<{}, {}, {}, {"data"}, {"data"}, {"data"}, {"X_train"},
           {"categorical_features"}, {"numerical_features"},
           {"X_test", "X_train", "categorical_features"}, {"X_train_cat"},
           {"X_test", "X_train", "numerical_features"}, {"X_train_num"},
           {"X_test_cat", "X_test_num", "X_train_cat", "X_train_num"}, {},
           {"X_train", "model_lasso_cv", "y_train"},
           {"X_test", "model_lasso_tuned"}, {"pred_lasso_label", "y_test"},
           {"pred_lasso_proba", "y_test"}, {},
           {"X_train", "model_rf_cv", "y_train"},
           {"X_test", "model_rf_tuned"}, {"pred_rf_label", "y_test"},
           {"pred_rf_proba", "y_test"},
           {"pred_lasso_proba", "pred_rf_proba"},
           {"pred_final_proba", "y_test"}>>
      [] nb = "stepwise_feature_selection" ->
         <<{}, {}, {}, {"data"}, {"data"}, {"data"}, {"data"}, {"data"},
           {"data"}, {"X_train", "y_train"}, {"sfs_fwd"},
           {"X_test", "X_train", "sfs_fwd", "y_test", "y_train"},
           {"X_test", "X_train", "lm", "y_test", "y_train"}, {"log"},
           {"log_df"}, {}>>
      [] nb = "linear_models" ->
         <<{}, {}, {}, {"data_train"}, {"data_train"}, {"data_train"},
           {"data_train"}, {"data_train"}, {"data_train"}, {"data_train"},
           {"data_train"}, {}, {"data_train"}, {}, {"data_train"},
           {"data_train"}, {"data_train"}, {}, {"data_train"},
           {"data_train"}, {}, {"data_train"}, {"data_train"},
           {"data_train"}, {"data_train"}, {"data_train"}, {"data_train"},
           {"data_train"}, {"data_train"}, {}, {"data_test"},
           {"data_test", "mod_03"}, {"preds"}, {"data_test", "preds"},
           {"my_submission"}, {"my_submission"}>>
      [] nb = "retrieve_data_from_statsbomb_api" ->
         <<{}, {}, {"grouped_events"}, {"grouped_events"}, {"shots"},
           {"shots"}, {"shots"}, {"shots"}, {"shots"}, {"shots"}>>
      [] nb = "part_000" ->
         <<{}, {}, {}, {"grouped_events"}, {"grouped_events"}, {"shots"},
           {"shots"}, {"shots"}, {"shots"}, {"shots"}, {"shots"}>>

(* An execution as it enters the next cell.                                *)
Entered(r) == load_names(run[r], Reads[pc])

Running == \A r \in DOMAIN run : run[r].status = "running"

Finished == pc > Len(Cells)

Stopped == Finished \/ ~Running

AtCell(label) == Running /\ ~Finished /\ Cells[pc] = label

(* A cell without a loop: every execution runs it, the next cell is next.  *)
Step(label, Cell(_)) ==
    /\ AtCell(label)
    /\ it = 0
    /\ run' = [r \in DOMAIN run |-> Cell(Entered(r))]
    /\ pc' = pc + 1
    /\ UNCHANGED <<nb, it>>

(* Imports and plt.style.use.                                              *)
Setup == AtCell("setup") /\ pc' = pc + 1 /\ UNCHANGED <<nb, it, run>>

(* A cell that only shows or plots a value.                                *)
Display ==
    /\ AtCell("display")
    /\ run' = [r \in DOMAIN run |-> Entered(r)]
    /\ pc' = pc + 1
    /\ UNCHANGED <<nb, it>>

(* The statements before the for statement, and the loop's start; a loop   *)
(* over nothing is over at once.                                           *)
LassoLoopEnter ==
    /\ AtCell("lasso_loop")
    /\ it = 0
    /\ run' = [r \in DOMAIN run |-> lasso_loop_enter(Entered(r))]
    /\ LET n == Len(lasso_loop_enter(Entered(1)).iter)
       IN /\ it' = IF n = 0 THEN 0 ELSE 1
          /\ pc' = IF n = 0 THEN pc + 1 ELSE pc
    /\ UNCHANGED nb

(* One iteration; after the last one the cell is over.                     *)
LassoLoopBody ==
    /\ AtCell("lasso_loop")
    /\ it >= 1
    /\ run' = [r \in DOMAIN run |-> lasso_loop_body(run[r], it)]
    /\ LET last == it >= Len(run[1].iter)
       IN /\ it' = IF last THEN 0 ELSE it + 1
          /\ pc' = IF last THEN pc + 1 ELSE pc
    /\ UNCHANGED nb

(* The feature engineering cells lasso.ipynb and stacking.ipynb share.     *)
Engineering ==
    \/ Step("dtypes", dtypes_cell)
    \/ Step("enc", enc_cell)
    \/ Step("scaler", scaler_cell)
    \/ Step("concat", concat_cell)

LassoSteps ==
    \/ Step("lasso_read_csv", lasso_read_csv)
    \/ Step("lasso_drop", lasso_drop)
    \/ Step("lasso_split", lasso_split)
    \/ Step("lasso_fit_alpha1", lasso_fit_alpha1)
    \/ Step("lasso_eval_alpha1", lasso_eval_alpha1)
    \/ LassoLoopEnter
    \/ LassoLoopBody
    \/ Step("lasso_results_df", lasso_results_df)
    \/ Step("lasso_melt", lasso_melt)
    \/ Step("lasso_cv", lasso_cv)
    \/ Step("lasso_tuned", lasso_tuned)
    \/ Step("lasso_eval_tuned", lasso_eval_tuned)
    \/ Step("lasso_interact", lasso_interact)
    \/ Step("lasso_interact_cv", lasso_interact_cv)
    \/ Step("lasso_interact_tuned", lasso_interact_tuned)
    \/ Step("lasso_eval_interact_tuned", lasso_eval_interact_tuned)

NextLasso == Setup \/ Display \/ Engineering \/ LassoSteps

(* The probabilities are whatever the fitted classifier returns for the    *)
(* test rows of the execution.                                             *)
StackingPredLasso ==
    /\ AtCell("stacking_pred_lasso")
    /\ \E p \in [DOMAIN run -> Probas(n_test(NRows))] :
           run' = [r \in DOMAIN run |-> stacking_pred_lasso(Entered(r), p[r])]
    /\ pc' = pc + 1
    /\ UNCHANGED <<nb, it>>

StackingPredRf ==
    /\ AtCell("stacking_pred_rf")
    /\ \E p \in [DOMAIN run -> Probas(n_test(NRows))] :
           run' = [r \in DOMAIN run |-> stacking_pred_rf(Entered(r), p[r])]
    /\ pc' = pc + 1
    /\ UNCHANGED <<nb, it>>

(* The cells up to the fit of the random forest, and the cells after it.   *)
StackingFits ==
    \/ Step("stacking_read_csv", stacking_read_csv)
    \/ Step("stacking_prepare", stacking_prepare)
    \/ Step("stacking_split", stacking_split)
    \/ Step("stacking_def_lasso", stacking_def_lasso)
    \/ Step("stacking_fit_lasso", stacking_fit_lasso)
    \/ StackingPredLasso
    \/ Step("stacking_report_lasso", stacking_report_lasso)
    \/ Step("stacking_auc_lasso", stacking_auc_lasso)
    \/ Step("stacking_def_rf", stacking_def_rf)
    \/ Step("stacking_fit_rf", stacking_fit_rf)

StackingSteps ==
    \/ StackingFits
    \/ StackingPredRf
    \/ Step("stacking_report_rf", stacking_report_rf)
    \/ Step("stacking_auc_rf", stacking_auc_rf)
    \/ Step("stacking_stack", stacking_stack)
    \/ Step("stacking_auc_final", stacking_auc_final)

NextStacking == Setup \/ Display \/ Engineering \/ StackingSteps

(* A grid search with parallel workers begins.                             *)
SearchEnter(label, name, search) ==
    /\ AtCell(label)
    /\ it = 0
    /\ run' = [r \in DOMAIN run |-> search_enter(Entered(r), name, search)]
    /\ it' = 1
    /\ UNCHANGED <<nb, pc>>

(* The workers finish the tasks they hold, in every execution in an order  *)
(* of its own; after the last batch the cell is over.                      *)
SearchBatch(label, name) ==
    /\ AtCell(label)
    /\ it >= 1
    /\ LET n == Len(run[1].jobs.tasks)
       IN /\ \E o \in [DOMAIN run -> Orders(Batch(n, it))] :
                 run' = [r \in DOMAIN run |-> search_batch(run[r], name, it, o[r])]
          /\ it' = IF it * NWorkers >= n THEN 0 ELSE it + 1
          /\ pc' = IF it * NWorkers >= n THEN pc + 1 ELSE pc
    /\ UNCHANGED nb

(* predict_proba is a function of the fitted model and the rows: two       *)
(* executions with the same fitted model and the same rows get the same    *)
(* probabilities.                                                          *)
SearchPred(label, model, Cell(_, _)) ==
    /\ AtCell(label)
    /\ \E p \in [DOMAIN run -> Probas(n_test(NRows))] :
           /\ \A r, s \in DOMAIN run :
                 (/\ run[r].ns[model] = run[s].ns[model]
                  /\ run[r].fits[run[r].ns[model].fitted]
                        = run[s].fits[run[s].ns[model].fitted]
                  /\ run[r].ns["X_test"] = run[s].ns["X_test"]) => p[r] = p[s]
           /\ run' = [r \in DOMAIN run |-> Cell(Entered(r), p[r])]
    /\ pc' = pc + 1
    /\ UNCHANGED <<nb, it>>

NextSearch ==
    \/ Setup
    \/ Display
    \/ Engineering
    \/ Step("stacking_read_csv", stacking_read_csv)
    \/ Step("stacking_prepare", stacking_prepare)
    \/ Step("stacking_split", stacking_split)
    \/ Step("stacking_def_lasso", stacking_def_lasso)
    \/ SearchEnter("stacking_fit_lasso", "model_lasso_tuned", model_lasso_cv)
    \/ SearchBatch("stacking_fit_lasso", "model_lasso_tuned")
    \/ SearchPred("stacking_pred_lasso", "model_lasso_tuned", stacking_pred_lasso)
    \/ Step("stacking_report_lasso", stacking_report_lasso)
    \/ Step("stacking_auc_lasso", stacking_auc_lasso)
    \/ Step("stacking_def_rf", stacking_def_rf)
    \/ SearchEnter("stacking_fit_rf", "model_rf_tuned", model_rf_cv)
    \/ SearchBatch("stacking_fit_rf", "model_rf_tuned")
    \/ SearchPred("stacking_pred_rf", "model_rf_tuned", stacking_pred_rf)
    \/ Step("stacking_report_rf", stacking_report_rf)
    \/ Step("stacking_auc_rf", stacking_auc_rf)
    \/ Step("stacking_stack", stacking_stack)
    \/ Step("stacking_auc_final", stacking_auc_final)

(* A code cell without code.                                               *)
Empty == AtCell("empty") /\ pc' = pc + 1 /\ UNCHANGED <<nb, it, run>>

(* What the selector of an execution may select at its next fit of k       *)
(* columns; any set when the fit raises instead.                           *)
SelectorChoices(rs, k) ==
    IF rs.status = "running" /\ k < Len(rs.ns["X_train"].cols)
    THEN Selections(rs, rs.ns["X_train"], rs.ns["y_train"], k)
    ELSE {{}}

StepwiseSfs ==
    /\ AtCell("stepwise_sfs")
    /\ \E S \in [DOMAIN run -> SUBSET Range(stepwise_columns)] :
           /\ \A r \in DOMAIN run : S[r] \in SelectorChoices(run[r], n_features_first)
           /\ run' = [r \in DOMAIN run |-> stepwise_sfs(Entered(r), S[r])]
    /\ pc' = pc + 1
    /\ UNCHANGED <<nb, it>>

StepwiseLoopEnter ==
    /\ AtCell("stepwise_loop")
    /\ it = 0
    /\ run' = [r \in DOMAIN run |-> stepwise_loop_enter(Entered(r))]
    /\ LET n == Len(stepwise_loop_enter(Entered(1)).iter)
       IN /\ it' = IF n = 0 THEN 0 ELSE 1
          /\ pc' = IF n = 0 THEN pc + 1 ELSE pc
    /\ UNCHANGED nb

(* One iteration; after the last one, or after one that raised, the cell   *)
(* is over.                                                                *)
StepwiseLoopBody ==
    /\ AtCell("stepwise_loop")
    /\ it >= 1
    /\ \E S \in [DOMAIN run -> SUBSET Range(stepwise_columns)] :
           /\ \A r \in DOMAIN run : S[r] \in SelectorChoices(run[r], run[r].iter[it])
           /\ run' = [r \in DOMAIN run |-> stepwise_loop_body(run[r], it, S[r])]
    /\ LET last == it >= Len(run[1].iter) \/ ~Running'
       IN /\ it' = IF last THEN 0 ELSE it + 1
          /\ pc' = IF last THEN pc + 1 ELSE pc
    /\ UNCHANGED nb

StepwiseSteps ==
    \/ Step("stepwise_read_csv", stepwise_read_csv)
    \/ Step("stepwise_select", stepwise_select)
    \/ Step("stepwise_split", stepwise_split)
    \/ StepwiseSfs
    \/ Step("stepwise_fit_selected", stepwise_fit_selected)
    \/ StepwiseLoopEnter
    \/ StepwiseLoopBody
    \/ Step("stepwise_log_df", stepwise_log_df)

NextStepwise == Setup \/ Display \/ Empty \/ StepwiseSteps

(* One execution of stepwise_feature_selection.ipynb.                      *)
InitStepwise ==
    /\ nb = "stepwise_feature_selection"
    /\ pc = 1
    /\ it = 0
    /\ \E f \in UniformFiles :
           run = [r \in {1} |-> NewRun(AmesTrainUrl :> AmesFrameStepwise(f))]

SpecStepwise == InitStepwise /\ [][NextStepwise]_vars

LinearSteps ==
    \/ Step("linear_read_train", linear_read_train)
    \/ Step("linear_select", linear_select)
    \/ Step("linear_mod_01", linear_mod_01)
    \/ Step("linear_mod_03", linear_mod_03)
    \/ Step("linear_mod_04", linear_mod_04)
    \/ Step("linear_mod_05a", linear_mod_05a)
    \/ Step("linear_mod_05b", linear_mod_05b)
    \/ Step("linear_mod_07a", linear_mod_07a)
    \/ Step("linear_mod_07b", linear_mod_07b)
    \/ Step("linear_mod_08", linear_mod_08)
    \/ Step("linear_read_test", linear_read_test)
    \/ Step("linear_predict", linear_predict)
    \/ Step("linear_submission", linear_submission)
    \/ Step("linear_to_csv", linear_to_csv)

NextLinear == Setup \/ Display \/ Empty \/ LinearSteps

(* One execution of linear_models.ipynb.                                   *)
InitLinear ==
    /\ nb = "linear_models"
    /\ pc = 1
    /\ it = 0
    /\ \E f \in RawFiles, g \in TestFiles :
           run = [r \in {1} |->
                    NewRun(TrainCsvPath :> AmesFrameLinear(f)
                           @@ TestCsvPath :> AmesTestFrame(g))]

SpecLinear == InitLinear /\ [][NextLinear]_vars

StatsBombSteps ==
    \/ Step("statsbomb_query", statsbomb_query)
    \/ Step("statsbomb_shots", statsbomb_shots)
    \/ Step("statsbomb_value_counts", statsbomb_value_counts)

NextStatsBomb == Setup \/ Display \/ Empty \/ StatsBombSteps

(* One execution of the StatsBomb notebook or of its copy.                 *)
InitStatsBomb ==
    /\ nb \in {"retrieve_data_from_statsbomb_api", "part_000"}
    /\ pc = 1
    /\ it = 0
    /\ \E e \in EventLogs : run = [r \in {1} |-> NewRun(StatsBombQuery :> e)]

SpecStatsBomb == InitStatsBomb /\ [][NextStatsBomb]_vars

(* One execution of stacking.ipynb.                                        *)
InitStacking ==
    /\ nb = "stacking"
    /\ pc = 1
    /\ it = 0
    /\ \E f \in RawFiles :
           run = [r \in {1} |-> NewRun(MicroMortgageUrl :> MortgageFrame(f))]

SpecStacking == InitStacking /\ [][NextStacking]_vars

(* One execution of lasso.ipynb.                                           *)
InitLasso ==
    /\ nb = "lasso"
    /\ pc = 1
    /\ it = 0
    /\ \E f \in RawFiles : run = [r \in {1} |-> NewRun(AmesTrainUrl :> AmesFrame(f))]

SpecLasso == InitLasso /\ [][NextLasso]_vars

(* One execution of any notebook of the repository.                        *)
Init == InitLasso \/ InitStacking \/ InitStepwise \/ InitLinear \/ InitStatsBomb

Next ==
    \/ Setup \/ Display \/ Empty \/ Engineering
    \/ LassoSteps \/ StackingSteps \/ StepwiseSteps \/ LinearSteps
    \/ StatsBombSteps

Spec == Init /\ [][Next]_vars

(* Executions in which a library call fails: besides the executions above *)
(* (the last cell of lasso.ipynb raises in all of them, the StatsBomb      *)
(* notebook when the API returns no shot), stacking.ipynb on a file        *)
(* without the column ID or without the column Tier, and linear_models     *)
(* without data/test.csv.                                                  *)
InitStackingFaulty ==
    /\ nb = "stacking"
    /\ pc = 1
    /\ it = 0
    /\ \E f \in RawFiles, c \in {"ID", "Tier"} :
           run = [r \in {1} |->
                    NewRun(MicroMortgageUrl :> drop(MortgageFrame(f), <<c>>))]

InitLinearFaulty ==
    /\ nb = "linear_models"
    /\ pc = 1
    /\ it = 0
    /\ \E f \in RawFiles :
           run = [r \in {1} |-> NewRun(TrainCsvPath :> AmesFrameLinear(f))]

SpecFaults == (Init \/ InitStackingFaulty \/ InitLinearFaulty) /\ [][Next]_vars

(* Two executions of lasso.ipynb or of stacking.ipynb, cell by cell in     *)
(* step, on files that differ at most in the rows the split puts into the  *)
(* test set.  The first execution's test rows are a fixed reference.  The  *)
(* executions are followed until the last model of the notebook is fitted. *)
ReferenceRow == <<1, 0, 1>>

TwinFrame(f) == IF nb = "lasso" THEN AmesTrainUrl :> AmesFrame(f)
                ELSE MicroMortgageUrl :> MortgageFrame(f)

InitTwin ==
    /\ nb \in {"lasso", "stacking"}
    /\ pc = 1
    /\ it = 0
    /\ \E tr \in [1..NRows -> TrainRows], te \in [TestPositions(NRows) -> TestRows] :
           run = [r \in {1, 2} |->
                    NewRun(TwinFrame(WithTestRows(tr,
                        IF r = 1 THEN [i \in TestPositions(NRows) |-> ReferenceRow]
                        ELSE te)))]

NextTwin == Setup \/ Display \/ Engineering \/ LassoSteps \/ StackingFits

SpecTwin == InitTwin /\ [][NextTwin]_vars

(* Two executions of stacking.ipynb on the same file, each with its own    *)
(* order of the workers.                                                   *)
InitSearch ==
    /\ nb = "stacking"
    /\ pc = 1
    /\ it = 0
    /\ run = [r \in {1, 2} |->
                NewRun(MicroMortgageUrl
                          :> MortgageFrame([i \in 1..NRows |-> ReferenceRow]))]

SpecSearch == InitSearch /\ [][NextSearch]_vars

----------------------------------------------------------------------------
(* Properties.                                                             *)

CellIndex(label) == CHOOSE i \in DOMAIN Cells : Cells[i] = label

(* The cell with this label has been executed (to its end or to a raise).  *)
Ran(label) == pc > CellIndex(label)

(* The lines printed so far under a label.                                 *)
Printed(rs, label) == SelectSeq(rs.out, LAMBDA l : l.label = label)

(* C2: in lasso.ipynb, once the last evaluation cell has run, pred_test    *)
(* holds the predictions of lasso_mod_interact_tuned for X_test_interact,  *)
(* r2_test and rmse_test are computed from those predictions and y_test,   *)
(* and the cell has printed its 'R2 on test set' and 'RMSE on test set'    *)
(* lines (the third of each in the notebook).                              *)
C2_LastEvalUsesInteractModel ==
    (nb = "lasso" /\ Ran("lasso_eval_interact_tuned")) =>
        \A r \in DOMAIN run :
            LET rs == run[r]
                p == predict(rs, rs.ns["lasso_mod_interact_tuned"],
                             rs.ns["X_test_interact"])
            IN /\ rs.ns["pred_test"] = p
               /\ rs.ns["r2_test"] = r2_score(rs.ns["y_test"], p)
               /\ rs.ns["rmse_test"].y_pred = p
               /\ rs.ns["rmse_test"].y_true = rs.ns["y_test"]
               /\ Len(Printed(rs, "R2 on test set:")) = 3
               /\ Len(Printed(rs, "RMSE on test set:")) = 3

(* C3: in lasso.ipynb every value printed under an 'RMSE' label is a root  *)
(* mean squared error, and when the notebook has stopped each of the three *)
(* evaluation cells has printed such a value for the training and for the  *)
(* test set.                                                               *)
C3_AllRmseAreRoots ==
    nb = "lasso" =>
        \A r \in DOMAIN run :
            LET rs == run[r]
                lines == Printed(rs, "RMSE on training set:")
                             \o Printed(rs, "RMSE on test set:")
            IN /\ \A k \in DOMAIN lines :
                      /\ lines[k].value.round.metric = "mean_squared_error"
                      /\ lines[k].value.round.root
               /\ Stopped => /\ Len(Printed(rs, "RMSE on training set:")) = 3
                             /\ Len(Printed(rs, "RMSE on test set:")) = 3

(* C7: in lasso.ipynb the grid has 100 values between 0 and 1000, each     *)
(* greater than the one before (so pairwise different); at every moment from the first iteration on, the k-th entry   *)
(* of results is a dict with the k-th grid value as alpha, the test RMSE   *)
(* of the Lasso fitted with that alpha on the training set as rmse, and    *)
(* one coefficient of that same fit per feature of X_train, and nothing    *)
(* else; after the loop there are exactly 100 entries.                     *)
C7_ResultsFollowTheGrid ==
    (nb = "lasso" /\ pc >= CellIndex("lasso_loop") /\ (it > 0 \/ Ran("lasso_loop"))) =>
        \A r \in DOMAIN run :
            LET rs == run[r]
                grid == linspace(alpha_stop, num_alphas)
                res == rs.ns["results"]
                X == rs.ns["X_train"]
            IN /\ Len(grid) = 100
               /\ \A k \in 1..(Len(grid) - 1) :
                      grid[k].num * grid[k + 1].den < grid[k + 1].num * grid[k].den
               /\ \A k \in DOMAIN grid :
                      /\ 0 <= grid[k].num
                      /\ grid[k].num <= 1000 * grid[k].den
               /\ Len(res) = IF Ran("lasso_loop") THEN 100 ELSE it - 1
               /\ Cardinality(Range(res)) = Len(res)
               /\ \A k \in DOMAIN res :
                      LET e == rs.heap[res[k]]
                          f == e["rmse"].y_pred.fit
                      IN /\ e["alpha"] = grid[k]
                         /\ rs.fits[f].class = "Lasso"
                         /\ rs.fits[f].params.alpha = grid[k]
                         /\ rs.fits[f].X = X
                         /\ rs.fits[f].y = rs.ns["y_train"]
                         /\ e["rmse"] = mean_squared_error(rs.ns["y_test"],
                                            [fit |-> f, X |-> rs.ns["X_test"]], FALSE)
                         /\ DOMAIN e = {"alpha", "rmse"} \cup Range(X.cols)
                         /\ \A i \in DOMAIN X.cols :
                                e[X.cols[i]] = [fit |-> f, i |-> i]

(* C7, witness: the loop is over and results is full.                      *)
C7_Witness ==
    /\ nb = "lasso"
    /\ Ran("lasso_loop")
    /\ Len(run[1].ns["results"]) = 100
    /\ Len(run[1].ns["X_train"].cols) >= 2

Leq(a, b) == a.num * b.den <= b.num * a.den

Eq(a, b) == a.num * b.den = b.num * a.den

(* C8: once the stacking cell of stacking.ipynb has run, pred_final_proba  *)
(* is, row by row, the mean of the LASSO and the random-forest             *)
(* probabilities, both column 1 of predict_proba of the tuned models for   *)
(* the rows of X_test in the same order; each value lies between its two   *)
(* components and in [0, 1], and swapping the components gives the same.   *)
C8_StackIsTheMean ==
    \A r \in DOMAIN run :
        (nb = "stacking" /\ Ran("stacking_stack") /\ run[r].status = "running") =>
            LET ns == run[r].ns
                l == ns["pred_lasso_proba"]
                f == ns["pred_rf_proba"]
                m == ns["pred_final_proba"]
                n == Len(ns["X_test"].rows)
            IN /\ l.column = 1 /\ f.column = 1
               /\ l.X = ns["X_test"] /\ f.X = ns["X_test"]
               /\ l.fit = ns["model_lasso_tuned"].fitted
               /\ f.fit = ns["model_rf_tuned"].fitted
               /\ l.fit # f.fit
               /\ Len(l.p) = n /\ Len(f.p) = n /\ Len(m) = n
               /\ \A i \in 1..n :
                    /\ Eq(Rational(2 * m[i].num, m[i].den),
                          Rational(l.p[i].num * f.p[i].den + f.p[i].num * l.p[i].den,
                                   l.p[i].den * f.p[i].den))
                    /\ Leq(l.p[i], m[i]) \/ Leq(f.p[i], m[i])
                    /\ Leq(m[i], l.p[i]) \/ Leq(m[i], f.p[i])
                    /\ Leq(Rational(0, 1), m[i]) /\ Leq(m[i], Rational(1, 1))
                    /\ Eq(m[i], stack_expr(f.p, l.p)[i])

C8_Witness ==
    /\ nb = "stacking" /\ Ran("stacking_stack") /\ run[1].status = "running"
    /\ Len(run[1].ns["pred_final_proba"]) > 0
    /\ ~Eq(run[1].ns["pred_lasso_proba"].p[1], run[1].ns["pred_rf_proba"].p[1])
    /\ run[1].ns["pred_rf_proba"].p[1].num > 0

(* C9: the model stacking.ipynb fits as its LASSO is a logistic regression *)
(* with an L1 penalty whose C is tuned by a 5-fold grid search over the 10 *)
(* values of np.logspace(-4, 4, 10).                                       *)
C9_LassoIsL1Logistic ==
    \A r \in DOMAIN run :
        (nb = "stacking" /\ Ran("stacking_fit_lasso") /\ run[r].status = "running") =>
            LET m == run[r].ns["model_lasso_tuned"]
                b == best_estimator_(run[r], m)
            IN /\ m.class = "GridSearchCV"
               /\ m.params.cv = 5
               /\ DOMAIN m.params.param_grid = {"C"}
               /\ m.params.param_grid.C = logspace(-4, 4, 10)
               /\ Len(m.params.param_grid.C) = 10
               /\ b.class = "LogisticRegression"
               /\ b.params.C.argmax_cv.X = run[r].ns["X_train"]
               /\ b.params.penalty = "l1"

(* The names that hold the fitted transformers, the training data and its  *)
(* engineered forms, and the names of the tuned models.                    *)
TrainingNames ==
    {"X_train", "y_train", "categorical_features", "numerical_features",
     "enc", "scaler", "interact", "X_train_cat", "X_train_num",
     "X_train_interact"}

TunedModels ==
    {"lasso_mod_tuned", "lasso_mod_interact_tuned", "model_lasso_tuned",
     "model_rf_tuned"}

(* The fitted state of the estimator bound to a name: the estimator and    *)
(* the logged fit its attributes come from.                                *)
FittedState(rs, m) ==
    [est |-> rs.ns[m],
     fit |-> IF rs.ns[m].fitted = 0 THEN <<>> ELSE rs.fits[rs.ns[m].fitted]]

(* C5: two executions of lasso.ipynb (or of stacking.ipynb) on files that  *)
(* differ only in the rows of the test set hold, at every cell, the same   *)
(* fitted encoder, scaler and interaction layout, the same engineered      *)
(* training data and the same fitted state of each tuned model.            *)
C5_TestSetDoesNotInterfere ==
    (DOMAIN run = {1, 2}) =>
        /\ \A x \in TrainingNames \cup TunedModels :
              Bound(run[1], x) <=> Bound(run[2], x)
        /\ \A x \in TrainingNames :
              Bound(run[1], x) => run[1].ns[x] = run[2].ns[x]
        /\ \A m \in TunedModels :
              Bound(run[1], m) => FittedState(run[1], m) = FittedState(run[2], m)

(* Both tuned models of lasso.ipynb are fitted, in two executions whose    *)
(* test sets differ in features and target, one with a category the        *)
(* training set does not have.                                             *)
C5_Witness ==
    /\ DOMAIN run = {1, 2}
    /\ nb = "lasso"
    /\ Ran("lasso_interact_tuned")
    /\ run[1].ns["lasso_mod_tuned"].fitted > 0
    /\ run[1].ns["lasso_mod_interact_tuned"].fitted > 0
    /\ run[1].ns["X_test"] # run[2].ns["X_test"]
    /\ run[1].ns["X_test_interact"] # run[2].ns["X_test_interact"]
    /\ run[1].ns["y_test"] # run[2].ns["y_test"]
    /\ run[1].ns["X_test_cat"] # run[2].ns["X_test_cat"]

(* C4: once the loop of stepwise_feature_selection.ipynb has run, log has  *)
(* one entry for each number of features from 1 to 7, in this order, and   *)
(* log_df has 7 rows, as many as the data has feature columns.             *)
C4_LogCoversOneToSeven ==
    \A r \in DOMAIN run :
        (nb = "stepwise_feature_selection" /\ Ran("stepwise_log_df")
         /\ run[r].status = "running") =>
            /\ Len(run[r].ns["X_train"].cols) = 7
            /\ Len(run[r].ns["log"]) = 7
            /\ \A k \in 1..7 : run[r].heap[run[r].ns["log"][k]]["n_features"] = k
            /\ Len(run[r].ns["log_df"]) = 7

(* C6: once mod_08 of linear_models.ipynb is fitted, the regressors of its *)
(* design matrix are the intercept, GrLivArea and the square of GrLivArea. *)
C6_SecondRegressorIsTheSquare ==
    \A r \in DOMAIN run :
        (nb = "linear_models" /\ Ran("linear_mod_08") /\ run[r].status = "running") =>
            LET X == run[r].fits[run[r].ns["mod_08"].fitted].X
                g == Column(run[r].ns["data_train"], "GrLivArea")
            IN /\ Len(X.cols) = 3
               /\ Len(X.rows) = Len(g)
               /\ \A i \in 1..Len(g) :
                     X.rows[i][2] = g[i] /\ X.rows[i][3] = g[i] * g[i]

(* The notebooks that only retrieve and explore data.                      *)
RetrievalNotebooks == {"retrieve_data_from_statsbomb_api", "part_000"}

Loaded(rs) == \E k \in DOMAIN rs.io : rs.io[k].op \in {"read", "query"}

Fitted(rs) == rs.fits # <<>>

(* An output that is an evaluation metric, rounded or not.                 *)
IsMetric(l) ==
    /\ "value" \in DOMAIN l
    /\ \/ "metric" \in DOMAIN l.value
       \/ "round" \in DOMAIN l.value /\ "metric" \in DOMAIN l.value.round

Reported(rs) == \E k \in DOMAIN rs.out : IsMetric(rs.out[k])

(* Load, then fit, then report, and no end before a fit and a metric.      *)
LoadFitReport(rs) ==
    /\ Fitted(rs) => Loaded(rs)
    /\ Reported(rs) => Fitted(rs)
    /\ Stopped => Loaded(rs) /\ Fitted(rs) /\ Reported(rs)

C10_OnlyTheSubmissionIsWritten ==
    /\ [](\A r \in DOMAIN run :
            LET io == run[r].io
            IN /\ \A k \in DOMAIN io :
                    /\ io[k].op \in {"read", "query", "write"}
                    /\ io[k].op = "write" =>
                          /\ nb = "linear_models" /\ Ran("linear_to_csv")
                          /\ io[k].target = "submission.csv"
                          /\ k = Len(io)
                    /\ io[k].op # "write" => io[k].target # "submission.csv"
               /\ (nb = "linear_models" /\ Ran("linear_to_csv")
                   /\ run[r].status = "running") =>
                      /\ io[Len(io)].op = "write"
                      /\ run[r].disk["submission.csv"] = run[r].ns["my_submission"])
    /\ [][\A r \in DOMAIN run :
            run[r].disk' # run[r].disk =>
                /\ nb = "linear_models" /\ Cells[pc] = "linear_to_csv"
                /\ DOMAIN run[r].disk' = DOMAIN run[r].disk \cup {"submission.csv"}
                /\ \A q \in DOMAIN run[r].disk : run[r].disk'[q] = run[r].disk[q]]_vars

C10_Witness ==
    /\ nb = "linear_models" /\ Ran("linear_to_csv") /\ run[1].status = "running"
    /\ "submission.csv" \in DOMAIN run[1].disk
    /\ Len(SelectSeq(run[1].io, LAMBDA a : a.op = "read")) = 2

(* The names the statements of a cell bind before the call that can fail.  *)
BoundBeforeFailure(label, rs) ==
    CASE label = "lasso_eval_interact_tuned" -> {"pred_train", "r2_train", "rmse_train"}
      [] label = "stacking_prepare" ->
            IF "ID" \in Range(rs.ns["data"].cols) THEN {"data"} ELSE {}
      [] OTHER -> {}

(* What an execution printed in the cell before the call that can fail.    *)
PrintedBeforeFailure(label) ==
    IF label = "lasso_eval_interact_tuned" THEN 3 ELSE 0

(* The names whose binding differs between two states of an execution.     *)
Rebound(rs, rt) ==
    {n \in DOMAIN rt.ns : n \notin DOMAIN rs.ns \/ rt.ns[n] # rs.ns[n]}

(* C11: an error raised by a library call ends its cell and the execution: *)
(* the statements of the cell after the failing call have no effect, the   *)
(* names bound before it (by earlier cells and by the cell's earlier       *)
(* statements) keep their values, and no later cell runs.                  *)
C11_ErrorsPropagate ==
    /\ [](\A r \in DOMAIN run :
            /\ run[r].status \in {"running", "error"}
            /\ run[r].status = "error" <=> run[r].error # "none"
            /\ (nb = "lasso" /\ Ran("lasso_eval_interact_tuned")) =>
                  run[r].status = "error" /\ run[r].error = "TypeError"
            /\ (nb = "stacking" /\ Ran("stacking_prepare")
                /\ ~HasColumns(run[r].disk[MicroMortgageUrl], <<"ID", "Tier">>)) =>
                  run[r].status = "error" /\ run[r].error = "KeyError"
            /\ (nb = "linear_models" /\ Ran("linear_read_test")
                /\ TestCsvPath \notin DOMAIN run[r].disk) =>
                  run[r].status = "error" /\ run[r].error = "FileNotFoundError"
            /\ (nb \in RetrievalNotebooks /\ Ran("statsbomb_shots")
                /\ \A i \in DOMAIN run[r].disk[StatsBombQuery] :
                      run[r].disk[StatsBombQuery][i].type # "Shot") =>
                  run[r].status = "error" /\ run[r].error = "KeyError")
    /\ [][\A r \in DOMAIN run :
            /\ run[r].status = "running"
            /\ run[r]'.status = "error" =>
                  /\ pc' = pc + 1
                  /\ DOMAIN run[r].ns \subseteq DOMAIN run[r]'.ns
                  /\ Rebound(run[r], run[r]') \subseteq BoundBeforeFailure(Cells[pc], run[r])
                  /\ Len(run[r]'.out) = Len(run[r].out) + PrintedBeforeFailure(Cells[pc])
                  /\ SubSeq(run[r]'.out, 1, Len(run[r].out)) = run[r].out
                  /\ run[r]'.fits = run[r].fits
                  /\ run[r]'.heap = run[r].heap
                  /\ run[r]'.disk = run[r].disk]_vars

(* The last cell of lasso.ipynb has raised after rebinding the training    *)
(* values; the test values are those of the cell before.                   *)
C11_Witness ==
    /\ nb = "lasso" /\ Ran("lasso_eval_interact_tuned")
    /\ run[1].status = "error"
    /\ run[1].ns["pred_train"].fit = run[1].ns["lasso_mod_interact_tuned"].fitted
    /\ run[1].ns["pred_test"].fit = run[1].ns["lasso_mod_tuned"].fitted
    /\ run[1].ns["rmse_test"].root

(* A list of k different columns of df, in the order df has them.          *)
InDatasetOrder(names, df, k) ==
    /\ Len(names) = k
    /\ Range(names) \subseteq Range(df.cols)
    /\ \A i, j \in 1..Len(names) :
          i < j => IndexOf(df.cols, names[i]) < IndexOf(df.cols, names[j])

(* C12: in stepwise_feature_selection.ipynb every fitted selector has      *)
(* selected as many columns of X_train as it was asked for; the            *)
(* stand-alone selector lists its 3 features, and every entry of log its   *)
(* n_features features, in the order of the columns of X_train, and these  *)
(* are the columns the entry's selector selected.                          *)
C12_SelectedFeatures ==
    \A r \in DOMAIN run :
        (nb = "stepwise_feature_selection" /\ run[r].status = "running") =>
            LET rs == run[r]
            IN /\ \A j \in DOMAIN rs.fits :
                     rs.fits[j].class = "SequentialFeatureSelector" =>
                        /\ rs.fits[j].X = rs.ns["X_train"]
                        /\ rs.fits[j].support \subseteq Range(rs.ns["X_train"].cols)
                        /\ Cardinality(rs.fits[j].support)
                              = rs.fits[j].params.n_features_to_select
               /\ (Ran("stepwise_sfs") /\ ~Ran("stepwise_fit_selected")) =>
                     InDatasetOrder(get_feature_names_out(rs, rs.ns["sfs_fwd"]),
                                    rs.ns["X_train"], 3)
               /\ Bound(rs, "log") =>
                     \A k \in 1..Len(rs.ns["log"]) :
                        LET e == rs.heap[rs.ns["log"][k]]
                        IN /\ InDatasetOrder(e["features"], rs.ns["X_train"],
                                             e["n_features"])
                           /\ \E j \in DOMAIN rs.fits :
                                 /\ rs.fits[j].class = "SequentialFeatureSelector"
                                 /\ rs.fits[j].params.n_features_to_select = e["n_features"]
                                 /\ Range(e["features"]) = rs.fits[j].support
                                 /\ rs.fits[j + 1].X.cols = e["features"]

(* The loop is over; the feature selected first is listed after the one    *)
(* selected second.                                                        *)
C12_Witness ==
    /\ nb = "stepwise_feature_selection" /\ Ran("stepwise_loop")
    /\ run[1].status = "running"
    /\ Len(run[1].ns["log"]) = 6
    /\ LET e1 == run[1].heap[run[1].ns["log"][1]]
           e2 == run[1].heap[run[1].ns["log"][2]]
       IN e2["features"][2] = e1["features"][1]

(* The value a fitted LassoCV reports as alpha_ is the grid value with the *)
(* lowest mean cross-validated error of a search over the grid on          *)
(* [0, stop] with the given number of folds on the data X, y.              *)
BestOfGrid(a, stop, folds, X, y) ==
    /\ DOMAIN a = {"argmin_cv"}
    /\ a.argmin_cv.class = "LassoCV"
    /\ a.argmin_cv.params.cv = folds
    /\ a.argmin_cv.params.alphas = linspace(stop, 100)
    /\ \A k \in DOMAIN a.argmin_cv.params.alphas :
          LET v == a.argmin_cv.params.alphas[k]
          IN 0 <= v.num /\ v.num <= stop * v.den
    /\ a.argmin_cv.X = X
    /\ a.argmin_cv.y = y

(* C13: in lasso.ipynb the alpha of lasso_mod_tuned is the best value of a *)
(* 5-fold search over the 100-value grid on [0, 1000] on the training      *)
(* data, the alpha of lasso_mod_interact_tuned the best value of a 2-fold  *)
(* search over the 100-value grid on [0, 10000] on the training data with  *)
(* interactions, and two executions that differ only in the rows of the    *)
(* test set choose the same alphas.                                        *)
C13_TunedAlphaIsBestOfGrid ==
    (nb = "lasso") =>
        /\ \A r \in DOMAIN run :
              LET rs == run[r]
              IN /\ Bound(rs, "lasso_mod_tuned") =>
                       BestOfGrid(rs.ns["lasso_mod_tuned"].params.alpha, 1000, 5,
                                  rs.ns["X_train"], rs.ns["y_train"])
                 /\ Bound(rs, "lasso_mod_interact_tuned") =>
                       BestOfGrid(rs.ns["lasso_mod_interact_tuned"].params.alpha,
                                  10000, 2,
                                  rs.ns["X_train_interact"], rs.ns["y_train"])
        /\ \A r, s \in DOMAIN run :
              \A m \in {"lasso_mod_tuned", "lasso_mod_interact_tuned"} :
                 (Bound(run[r], m) /\ Bound(run[s], m)) =>
                    run[r].ns[m].params.alpha = run[s].ns[m].params.alpha

(* Both tuned models are fitted with their alphas, the name alphas is      *)
(* bound to the second grid, and the two executions have different test    *)
(* sets.                                                                   *)
C13_Witness ==
    /\ nb = "lasso" /\ Ran("lasso_interact_tuned")
    /\ DOMAIN run = {1, 2}
    /\ run[1].status = "running"
    /\ run[1].ns["lasso_mod_tuned"].fitted > 0
    /\ run[1].ns["lasso_mod_interact_tuned"].fitted > 0
    /\ run[1].ns["alphas"] = linspace(10000, 100)
    /\ run[1].ns["lasso_mod_tuned"].params.alpha
          # run[1].ns["lasso_mod_interact_tuned"].params.alpha
    /\ run[1].ns["X_test"] # run[2].ns["X_test"]
    /\ run[1].ns["y_test"] # run[2].ns["y_test"]

(* The results of a search whose tasks run one after the other.            *)
SequentialResults(search) ==
    [t \in DOMAIN Tasks(search) |->
        fit_and_score(search.params.estimator, Tasks(search)[t], 1)]

SearchedModels == {"model_lasso_tuned", "model_rf_tuned"}

(* C14: in stacking.ipynb, whatever the order in which the workers of the  *)
(* two grid searches finish their tasks, a search holds, while it runs and *)
(* when it has finished, the results of a search that runs its tasks one   *)
(* after the other; two executions on the same file hold the same best     *)
(* estimators, and pred_lasso_proba, pred_rf_proba and pred_final_proba    *)
(* are the same in both.                                                   *)
C14_WorkerOrderIsImmaterial ==
    (nb = "stacking") =>
        \A r, s \in DOMAIN run :
            /\ \A m \in SearchedModels :
                  (Bound(run[r], m) /\ run[r].ns[m].fitted = 0
                   /\ run[r].jobs.tasks = Tasks(run[r].ns[m])) =>
                      run[r].jobs.results
                         = SubSeq(SequentialResults(run[r].ns[m]), 1,
                                  Len(run[r].jobs.results))
            /\ \A m \in SearchedModels :
                  (Bound(run[r], m) /\ run[r].ns[m].fitted > 0
                   /\ "cv_results" \in DOMAIN run[r].fits[run[r].ns[m].fitted]) =>
                      /\ run[r].fits[run[r].ns[m].fitted].cv_results
                            = SequentialResults(run[r].ns[m])
                      /\ (Bound(run[s], m) /\ run[s].ns[m].fitted > 0) =>
                            best_estimator_(run[r], run[r].ns[m])
                               = best_estimator_(run[s], run[s].ns[m])
            /\ \A v \in {"pred_lasso_proba", "pred_rf_proba", "pred_final_proba"} :
                  (Bound(run[r], v) /\ Bound(run[s], v)) =>
                      run[r].ns[v] = run[s].ns[v]

(* The stacked probabilities are computed in two executions; in the first  *)
(* the workers of both searches finished tasks out of order, in the second *)
(* none did.                                                               *)
C14_Witness ==
    /\ nb = "stacking" /\ Ran("stacking_stack")
    /\ DOMAIN run = {1, 2}
    /\ run[1].status = "running"
    /\ run[1].jobs.reordered = SearchedModels
    /\ run[2].jobs.reordered = {}
    /\ Bound(run[1], "pred_final_proba")
    /\ Len(run[1].fits[run[1].ns["model_rf_tuned"].fitted].cv_results) = 135
    /\ Len(run[1].fits[run[1].ns["model_lasso_tuned"].fitted].cv_results) = 50

(* C15: in every notebook executed top to bottom, every name the next cell *)
(* reads before binding it itself is bound when the cell is entered, and   *)
(* no execution has ended in a NameError; the alphas the first LassoCV is  *)
(* given are those the loop cell bound, the selectors of the loop wrap the *)
(* lm bound before it, and preds is predicted by the fitted mod_03.        *)
C15_NamesAreBound ==
    \A r \in DOMAIN run :
        /\ run[r].error # "NameError"
        /\ (Running /\ ~Finished /\ it = 0) =>
              Reads[pc] \subseteq DOMAIN run[r].ns
        /\ (nb = "lasso" /\ Ran("lasso_cv") /\ ~Ran("lasso_interact_cv")) =>
              /\ Bound(run[r], "alphas")
              /\ run[r].ns["lasso_mod_cv"].params.alphas = run[r].ns["alphas"]
        /\ (nb = "stepwise_feature_selection" /\ Bound(run[r], "lm")) =>
              \A j \in DOMAIN run[r].fits :
                 run[r].fits[j].class = "SequentialFeatureSelector" =>
                    run[r].fits[j].params.estimator = run[r].ns["lm"]
        /\ (nb = "linear_models" /\ Bound(run[r], "preds")) =>
              /\ run[r].ns["mod_03"].fitted > 0
              /\ run[r].ns["preds"].fit = run[r].ns["mod_03"].fitted

(* The forest's search of stacking.ipynb has been made by calling the      *)
(* lambda the cell before it bound, while the first lambda is still bound. *)
C15_Witness ==
    /\ nb = "stacking" /\ Ran("stacking_fit_rf")
    /\ run[1].status = "running"
    /\ {"model_lasso_cv", "model_rf_cv", "model_rf_tuned"} \subseteq DOMAIN run[1].ns
    /\ run[1].ns["model_rf_cv"] # run[1].ns["model_lasso_cv"]
    /\ run[1].ns["model_rf_tuned"].fitted > 0

(* The collection the running loop iterates over.                          *)
LoopCollection ==
    CASE nb = "lasso" -> linspace(1000, 100)
      [] nb = "stepwise_feature_selection" -> <<1, 2, 3, 4, 5, 6>>
      [] OTHER -> <<>>

(* The steps an execution has at most before it: per cell that is left,   *)
(* one step to enter it and one per iteration of the longest loop.         *)
Remaining ==
    IF Stopped THEN 0 ELSE (Len(Cells) + 1 - pc) * 102 - it

(* An execution that has not stopped has a next step: no cell waits for    *)
(* anything but the library calls it makes.                                *)
NextStepExists == ~Stopped => ENABLED Next

(* C16: every notebook executed top to bottom comes to its end or to an    *)
(* exception, provided every library call returns: every step brings the   *)
(* execution nearer to the end of the notebook, which is a bounded number  *)
(* of steps away. A loop is running only in the loop cells of lasso.ipynb  *)
(* (over the 100 values of alphas) and of stepwise_feature_selection.ipynb *)
(* (over range(1, 7)); an iteration leaves the collection as it is and     *)
(* moves to the next value or ends the loop, and the inner loop of         *)
(* lasso.ipynb has written one entry per feature name.                     *)
C16_RunAllTerminates ==
    /\ [](Remaining >= 0)
    /\ [](it >= 1 =>
            /\ Cells[pc] \in {"lasso_loop", "stepwise_loop"}
            /\ \A r \in DOMAIN run :
                  /\ run[r].iter = LoopCollection
                  /\ it <= Len(run[r].iter))
    /\ [][/\ Remaining' < Remaining
          /\ it >= 1 =>
                /\ it' \in {0, it + 1}
                /\ (it' = 0) = (pc' = pc + 1)
                /\ \A r \in DOMAIN run :
                      /\ run[r]'.iter = run[r].iter
                      /\ (nb = "lasso" /\ run[r]'.status = "running") =>
                            LET result == run[r]'.heap[run[r]'.ns["result"]]
                            IN DOMAIN result
                                  = {"alpha", "rmse"}
                                       \cup Range(run[r]'.ns["coef_names"])]_vars

(* lasso.ipynb has stopped after the hundred iterations of its loop, the   *)
(* last of them with one coefficient per column of X_train.                *)
C16_Witness ==
    /\ nb = "lasso" /\ Stopped /\ it = 0
    /\ Len(run[1].ns["results"]) = 100
    /\ run[1].ns["a"] = linspace(1000, 100)[100]
    /\ run[1].ns["i"] = Len(run[1].ns["X_train"].cols) - 1

(* The sum of the counts of a value_counts result.                         *)
RECURSIVE Total(_)
Total(counts) ==
    IF DOMAIN counts = {} THEN 0
    ELSE LET v == CHOOSE x \in DOMAIN counts : TRUE
         IN counts[v] + Total([w \in DOMAIN counts \ {v} |-> counts[w]])

(* C17: in the StatsBomb notebook and in its copy, shots is the "shots"    *)
(* group of the split events: the events of type Shot the API returned, in *)
(* their order, and nothing else. The value counts of shot_outcome that    *)
(* the last cell shows count every shot under its outcome and under no     *)
(* other, so they sum to the number of rows of shots; the recorded counts  *)
(* sum to the 7831 recorded rows.                                          *)
C17_ShotsArePartitionedByOutcome ==
    /\ SumSeq(recorded_value_counts) = recorded_rows
    /\ \A r \in DOMAIN run :
          (nb \in RetrievalNotebooks /\ Bound(run[r], "shots")) =>
              LET rs == run[r]
                  shots == rs.ns["shots"]
              IN /\ shots = rs.ns["grouped_events"]["shots"]
                 /\ shots = SelectSeq(rs.disk[StatsBombQuery],
                                      LAMBDA e : e.type = "Shot")
                 /\ \A i \in DOMAIN shots : shots[i].type = "Shot"
                 /\ (Ran("statsbomb_value_counts") /\ rs.status = "running") =>
                       LET counts == rs.out[Len(rs.out)].value.value_counts
                       IN /\ \A i \in DOMAIN shots :
                                shots[i].shot_outcome \in DOMAIN counts
                          /\ \A v \in DOMAIN counts :
                                counts[v] = Cardinality({i \in DOMAIN shots :
                                                shots[i].shot_outcome = v})
                          /\ Total(counts) = Len(shots)

(* The copy of the notebook has shown the counts of two outcomes of two    *)
(* shots; the API had returned a pass as well.                             *)
C17_Witness ==
    /\ nb = "part_000" /\ Ran("statsbomb_value_counts")
    /\ run[1].status = "running"
    /\ Len(run[1].ns["shots"]) = 2
    /\ Len(run[1].disk[StatsBombQuery]) > 2
    /\ Cardinality(DOMAIN run[1].out[Len(run[1].out)].value.value_counts) = 2
====
